---- MODULE Spec2Model ----
(***************************************************************************)
(* A model of the topic metadata cache of docfx-assistant                  *)
(* (src/src/metadata-cache.ts, class MetadataCache, lines 14-401).         *)
(*                                                                         *)
(* The cache runs on a single JavaScript event loop.  Every action below   *)
(* is one run-to-completion turn of that loop: the synchronous prefix of   *)
(* a public method, or the continuation that runs when an awaited file     *)
(* system operation completes (the operation's effect on the disk and the  *)
(* continuation are one step).  Promise reactions (microtasks) run inside  *)
(* the turn that settles the promise.                                      *)
(***************************************************************************)
EXTENDS Integers, Sequences, FiniteSets, TLC

\* ---------------------------------------------------------------- bounds
\* Number of ensurePopulated() calls that may await populatingPromise at once
\* (besides the call that started the population).
MaxJoiners == 1
\* Number of handleTopicChange() invocations whose persist() may be in flight.
MaxChangePersists == 1
\* Numbers of invocations of the public operations and of delivered change
\* notifications in one behaviour.
MaxCalls == 3
MaxFlushes == 1
MaxOpens == 2
MaxCloses == 1
\* The same for the behaviours of SpecIndex, which populate once and then
\* process change notifications.
IndexCalls == 1
IndexOpens == 1
MaxChanges == 2
\* The same for the behaviours of SpecReload, which populate, process change
\* notifications, flush and populate again.
ReloadCalls == 2
ReloadOpens == 1
ReloadChanges == 1
ReloadFlushes == 1
\* Longest topic list carried by one change notification.
MaxTopicsPerChange == 2
\* Longest topic list returned by one project scan.
MaxScanTopics == 1

ChangeTaskIds == 1 .. MaxChangePersists
\* Task 0 is the persist() awaited by loadTopicMetadata.
PersistIds == 0 .. MaxChangePersists

Projects == {"A", "B"}
Files == {"f.md", "g.md"}
Uids == {"u", "w"}
Titles == {"T1"}
\* The project whose directory the change watcher observes.
WatchedProject == "A"

NoProject == "null"

\* ----------------------------------------------------------------- paths
\* An absolute path <dir>/<file>, where the directory is a project directory.
AbsPath(p, f) == [abs |-> TRUE, dir |-> p, file |-> f]
\* A relative path; dir is "." for <file> and q for ../<q>/<file>.
RelPath(d, f) == [abs |-> FALSE, dir |-> d, file |-> f]

isAbsolute(x) == x.abs

relative(from, to) ==
    RelPath(IF to.dir = from THEN "." ELSE to.dir, to.file)

\* ---------------------------------------------------------------- topics
Topic(u, src, t) == [uid |-> u, sourceFile |-> src, title |-> t]

\* A nullable field: null, or a value.
Null == [isNull |-> TRUE, v |-> <<>>]
Some(x) == [isNull |-> FALSE, v |-> x]

\* Map<string, TopicMetadata>, keyed by the topic's uid, in insertion order.
MapKeys(m) == {m[i].uid : i \in DOMAIN m}
MapHas(m, u) == u \in MapKeys(m)
MapGet(m, u) == m[CHOOSE i \in DOMAIN m : m[i].uid = u]
\* A set() that keeps the entry already stored under the key.
MapSetKeepFirst(m, t) == IF MapHas(m, t.uid) THEN m ELSE Append(m, t)
MapSet(m, t) ==
    IF MapHas(m, t.uid)
    THEN [i \in DOMAIN m |-> IF m[i].uid = t.uid THEN t ELSE m[i]]
    ELSE Append(m, t)
IsOtherUid(t, u) == t.uid # u
MapDelete(m, u) == SelectSeq(m, LAMBDA t : IsOtherUid(t, u))

\* Map<string, TopicMetadata[]>, keyed by content file.
FnHas(m, k) == k \in DOMAIN m
FnSet(m, k, val) == [x \in (DOMAIN m) \cup {k} |-> IF x = k THEN val ELSE m[x]]
FnDelete(m, k) == [x \in (DOMAIN m) \ {k} |-> m[x]]
EmptyFn == <<>>

RECURSIVE MapDeleteAll(_, _)
MapDeleteAll(m, ts) ==
    IF ts = <<>> THEN m ELSE MapDeleteAll(MapDelete(m, Head(ts).uid), Tail(ts))

RECURSIVE MapSetAll(_, _)
MapSetAll(m, ts) ==
    IF ts = <<>> THEN m ELSE MapSetAll(MapSet(m, Head(ts)), Tail(ts))

\* The two maps of the index.
Index(t, b) == [topics |-> t, byFile |-> b]
EmptyIndex == Index(<<>>, EmptyFn)

\* One iteration of the forEach in loadTopicMetadata.
LoadTopic(idx, topic, projectDir) ==
    LET t == IF isAbsolute(topic.sourceFile)
             THEN [topic EXCEPT !.sourceFile = relative(projectDir, topic.sourceFile)]
             ELSE topic
        existing == IF FnHas(idx.byFile, t.sourceFile) THEN idx.byFile[t.sourceFile] ELSE <<>>
    IN  Index(MapSet(idx.topics, t), FnSet(idx.byFile, t.sourceFile, Append(existing, t)))

RECURSIVE LoadTopics(_, _, _)
LoadTopics(idx, topicMetadata, projectDir) ==
    IF topicMetadata = <<>> THEN idx
    ELSE LoadTopics(LoadTopic(idx, Head(topicMetadata), projectDir),
                    Tail(topicMetadata), projectDir)

\* ----------------------------------------------------- change notifications
Added == "Added"
Changed == "Changed"
Removed == "Removed"

TopicChange(ty, f, ts) == [changeType |-> ty, contentFile |-> f, topics |-> ts]

\* An upsert that appends to the content file's list instead of replacing it.
UpsertFileAppend(idx, change) ==
    LET old == IF FnHas(idx.byFile, change.contentFile)
               THEN idx.byFile[change.contentFile] ELSE <<>>
    IN  Index(MapSetAll(idx.topics, change.topics),
              FnSet(idx.byFile, change.contentFile, old \o change.topics))

\* handleTopicChange, case Added / Changed.
UpsertFile(idx, change) ==
    LET old == IF FnHas(idx.byFile, change.contentFile)
               THEN idx.byFile[change.contentFile] ELSE <<>>
        afterDelete == MapDeleteAll(idx.topics, old)
    IN  Index(MapSetAll(afterDelete, change.topics),
              FnSet(idx.byFile, change.contentFile, change.topics))

\* handleTopicChange, case Removed.
RemoveFile(idx, change) ==
    IF FnHas(idx.byFile, change.contentFile)
    THEN Index(MapDeleteAll(idx.topics, idx.byFile[change.contentFile]),
               FnDelete(idx.byFile, change.contentFile))
    ELSE idx

ApplyChange(idx, change) ==
    IF change.changeType = Removed THEN RemoveFile(idx, change) ELSE UpsertFile(idx, change)

\* Sequences over S of length at most n.
SeqsUpTo(S, n) == UNION {[1 .. k -> S] : k \in 0 .. n}

\* What the watcher's extractor yields for a watched file: topics whose
\* sourceFile is the absolute path of the file.
ExtractedTopics(p, f) == {Topic(u, AbsPath(p, f), t) : u \in Uids, t \in Titles}

\* The notifications observeTopicChanges can emit: contentFile is relative to
\* the project directory; topics is absent (empty here) for Removed.
UpsertChanges ==
    UNION {{TopicChange(ty, relative(WatchedProject, AbsPath(WatchedProject, f)), ts) :
                ty \in {Added, Changed},
                ts \in SeqsUpTo(ExtractedTopics(WatchedProject, f), MaxTopicsPerChange)} :
           f \in Files}
RemoveChanges ==
    {TopicChange(Removed, relative(WatchedProject, AbsPath(WatchedProject, f)), <<>>) : f \in Files}
Changes == UpsertChanges \cup RemoveChanges

\* The content of the two projects differs: the topics of the watched project
\* carry the titles of Titles, those of the other project the titles below.
OtherTitles == {"T2"}
TitlesOf(p) == IF p = WatchedProject THEN Titles ELSE OtherTitles

\* What a scan of project p can return: topics with absolute source files.
ScanTopics(p) == {Topic(u, AbsPath(p, f), t) : u \in Uids, f \in Files, t \in TitlesOf(p)}
ScanResults(p) == SeqsUpTo(ScanTopics(p), MaxScanTopics)

\* ------------------------------------------------------------------ state
VARIABLES
    docfxProject,          \* the open project (its file), or NoProject
    topics,                \* nullable Map uid -> topic
    topicsByContentFile,   \* nullable Map content file -> topic[]
    populatingPromise,     \* "null", or the state of the stored promise
    cacheFile,             \* the snapshot file topic-cache.json
    stateDirExists,        \* does the state directory exist?
    pop,                   \* the running loadTopicMetadata, if any
    persistTasks,          \* the running persist() calls
    openTask,              \* the running openProject(), if any
    flushTask,             \* the running flush(true), if any
    budget,                \* invocations still allowed in this behaviour
    joiners,               \* number of ensurePopulated calls awaiting populatingPromise
    \* history variables (observations, not program state)
    outcomes,              \* what the calls that overlapped the latest population resolved to
    rejections,            \* the public operations that have rejected (thrown)
    popOutcome,            \* outcome of the most recent population attempt
    lastWrite,             \* per uid: the topic most recently written to topics
    \* the parts of the extension around the cache
    watch,                 \* the change adapter: watcher events, extractions, subscription
    scan,                  \* a project scan (getAllTopics): its input files and its result
    query,                 \* a list query: the topics, the filter and its result
    glob,                  \* a content file enumeration or match: its inputs and its result
    search,                \* a search for the project: its inputs and what it reported
    refresh,               \* the refresh command: how far it is, what the last load read
    frontMatter            \* a front matter read: the file's lines and what was returned

cacheVars == <<docfxProject, topics, topicsByContentFile, populatingPromise>>
diskVars == <<cacheFile, stateDirExists>>
taskVars == <<pop, persistTasks, openTask, flushTask>>
callVars == <<joiners, outcomes>>
histVars == <<rejections, popOutcome, lastWrite>>
auxVars == <<watch, scan, query, glob, search, refresh, frontMatter>>
\* Everything the cache itself consists of.
cacheSide == <<cacheVars, diskVars, taskVars, callVars, histVars, budget>>
vars == <<cacheVars, diskVars, taskVars, callVars, histVars, budget, auxVars>>

NoFile == [state |-> "absent", data |-> <<>>]
CorruptFile == [state |-> "corrupt", data |-> <<>>]
ValidFile(ts) == [state |-> "valid", data |-> ts]

IdlePop == [pc |-> "none", projectDir |-> NoProject, scanProject |-> NoProject]
IdlePersist == [pc |-> "idle", data |-> <<>>]
IdleOpen == [pc |-> "none", file |-> NoProject]
NoTopic == [isNull |-> TRUE, v |-> Topic("", RelPath("", ""), "")]

\* The persist() slots of handleTopicChange invocations.
ChangeTasks == (DOMAIN persistTasks) \ {0}

\* MetadataCache.isPopulated
isPopulated == docfxProject # NoProject /\ ~topics.isNull /\ ~topicsByContentFile.isNull
\* MetadataCache.projectFile (NoProject stands for null)
projectFile == docfxProject

\* The index as the two maps (only meaningful when neither is null).
CurrentIndex == Index(topics.v, topicsByContentFile.v)

\* The cache after construction, with room for n concurrent handleTopicChange().
InitCacheTasks(b, n) ==
    /\ docfxProject = NoProject
    /\ topics = Null
    /\ topicsByContentFile = Null
    /\ populatingPromise = "null"
    /\ \/ cacheFile = NoFile /\ stateDirExists = FALSE
       \/ cacheFile = CorruptFile /\ stateDirExists = TRUE
    /\ pop = IdlePop
    /\ persistTasks = [i \in 0 .. n |-> IdlePersist]
    /\ openTask = IdleOpen
    /\ flushTask = "none"
    /\ budget = b
    /\ joiners = 0
    /\ outcomes = {}
    /\ rejections = {}
    /\ popOutcome = "none"
    /\ lastWrite = [u \in Uids |-> NoTopic]

InitCache(b) == InitCacheTasks(b, MaxChangePersists)

\* No watcher is set up; no scan, query, enumeration or search is under way.
NoWatch == [subscription |-> "none", events |-> <<>>, pending |-> {}, emitted |-> <<>>,
            notifications |-> <<>>]
NoScan == [files |-> <<>>, by |-> "none", result |-> "none", topics |-> <<>>]
NoQuery == [topics |-> <<>>, topicType |-> 0, result |-> "none", items |-> <<>>]
NoGlob == [project |-> <<>>, filePath |-> <<>>, result |-> "none", files |-> <<>>,
           included |-> FALSE]
NoSearch == [cached |-> "none", inWorkspace |-> FALSE, findFails |-> FALSE,
             ignoreMissingProjectFile |-> FALSE, open |-> FALSE, by |-> "none",
             progress |-> <<>>, result |-> "none", thrown |-> <<>>]
NoRefresh == [pc |-> "none", source |-> "none"]
NoFrontMatter == [file |-> <<>>, result |-> "none", document |-> <<>>, linesRead |-> 0]

InitWith(b) ==
    /\ InitCache(b)
    /\ watch = NoWatch
    /\ refresh = NoRefresh
    /\ frontMatter = NoFrontMatter
    /\ glob = NoGlob
    /\ search = NoSearch
    /\ scan = NoScan
    /\ query = NoQuery

Init == InitWith([calls |-> MaxCalls, changes |-> 0, flushes |-> MaxFlushes,
                  opens |-> MaxOpens, closes |-> MaxCloses])

\* ------------------------------------------------------- history helpers
LastIndexOf(ts, u) == CHOOSE i \in DOMAIN ts : ts[i].uid = u /\ \A j \in DOMAIN ts : ts[j].uid = u => j <= i
\* lastWrite after the topics ts have been written, in order.
WriteAll(lw, ts) ==
    [u \in Uids |-> IF \E i \in DOMAIN ts : ts[i].uid = u
                    THEN Some(ts[LastIndexOf(ts, u)]) ELSE lw[u]]
NothingWritten == [u \in Uids |-> NoTopic]
\* The topics of a scan or snapshot as loadTopicMetadata stores them.
Normalized(ts, projectDir) ==
    [i \in DOMAIN ts |-> IF isAbsolute(ts[i].sourceFile)
                         THEN [ts[i] EXCEPT !.sourceFile = relative(projectDir, ts[i].sourceFile)]
                         ELSE ts[i]]

\* ------------------------------------------------------------ population
\* The promise returned by populate() is fulfilled with res: the reaction
\* registered by the call that started it (ensurePopulated, line 225) clears
\* populatingPromise and resolves that call with the value of the assignment,
\* null; the calls awaiting populatingPromise (line 221) resolve with res.
Settle(res) ==
    /\ populatingPromise' = "null"
    /\ pop' = IdlePop
    /\ joiners' = 0
    /\ outcomes' = outcomes \cup {"null"} \cup (IF joiners > 0 THEN {res} ELSE {})
    /\ popOutcome' = res

\* ensurePopulated(), up to its first suspension.
EnsurePopulated ==
    IF projectFile # NoProject /\ ~topics.isNull
    THEN \* line 217: already populated
         /\ outcomes' = IF pop.pc # "none" THEN outcomes \cup {"true"} ELSE outcomes
         /\ UNCHANGED <<cacheVars, diskVars, taskVars, joiners, histVars>>
    ELSE IF populatingPromise # "null"
    THEN \* line 220: await the stored promise
         IF populatingPromise = "pending"
         THEN /\ joiners < MaxJoiners
              /\ joiners' = joiners + 1
              /\ UNCHANGED <<cacheVars, diskVars, taskVars, outcomes, histVars>>
         ELSE /\ rejections' = rejections \cup {"ensurePopulated"}
              /\ UNCHANGED <<cacheVars, diskVars, taskVars, callVars, popOutcome, lastWrite>>
    ELSE IF docfxProject = NoProject
    THEN \* populate(): ensureOpenProject throws, the promise is rejected and
         \* the reaction that clears populatingPromise never runs
         /\ populatingPromise' = "rejected"
         /\ rejections' = rejections \cup {"ensurePopulated"}
         /\ popOutcome' = "rejected"
         /\ UNCHANGED <<docfxProject, topics, topicsByContentFile, diskVars, taskVars,
                        callVars, lastWrite>>
    ELSE IF ~topics.isNull
    THEN \* populate(), line 248: return true
         /\ outcomes' = {"null"}
         /\ popOutcome' = "true"
         /\ UNCHANGED <<cacheVars, diskVars, taskVars, joiners, rejections, lastWrite>>
    ELSE \* populate() -> loadTopicMetadata, up to await fs.exists(cacheFile)
         /\ populatingPromise' = "pending"
         /\ topics' = Some(<<>>)
         /\ topicsByContentFile' = Some(EmptyFn)
         /\ pop' = [pc |-> "cacheExists", projectDir |-> docfxProject, scanProject |-> NoProject]
         /\ outcomes' = {}
         /\ popOutcome' = "running"
         /\ lastWrite' = NothingWritten
         /\ UNCHANGED <<docfxProject, diskVars, persistTasks, openTask, flushTask,
                        joiners, rejections>>

\* loadTopicMetadata: an exception reaches the catch block, which returns false.
PopFail ==
    /\ Settle("false")
    /\ UNCHANGED <<docfxProject, topics, topicsByContentFile, diskVars, persistTasks,
                   openTask, flushTask, rejections, lastWrite>>

\* loadTopicMetadata from the forEach to the first suspension of persist().
PopBulkLoad(topicMetadata) ==
    IF topics.isNull \/ topicsByContentFile.isNull
    THEN PopFail
    ELSE LET idx == LoadTopics(CurrentIndex, topicMetadata, pop.projectDir)
         IN  /\ topics' = Some(idx.topics)
             /\ topicsByContentFile' = Some(idx.byFile)
             /\ lastWrite' = WriteAll(lastWrite, Normalized(topicMetadata, pop.projectDir))
             /\ pop' = [pop EXCEPT !.pc = "persist"]
             /\ persistTasks' = [persistTasks EXCEPT ![0] = [pc |-> "dirExists", data |-> <<>>]]
             /\ UNCHANGED <<docfxProject, populatingPromise, diskVars, openTask, flushTask,
                            callVars, rejections, popOutcome>>

\* loadTopicsFromCacheFile: fs.exists(cacheFile) completes.
PopCacheExists ==
    /\ pop.pc = "cacheExists"
    /\ IF cacheFile.state # "absent"
       THEN /\ pop' = [pop EXCEPT !.pc = "readFile"]
            /\ UNCHANGED <<cacheVars, diskVars, persistTasks, openTask, flushTask,
                           callVars, histVars>>
       ELSE IF docfxProject = NoProject
       THEN PopFail
       ELSE /\ pop' = [pop EXCEPT !.pc = "scan", !.scanProject = docfxProject]
            /\ UNCHANGED <<cacheVars, diskVars, persistTasks, openTask, flushTask,
                           callVars, histVars>>

\* loadTopicsFromCacheFile: fs.readFile completes and its text is parsed.
PopReadFile ==
    /\ pop.pc = "readFile"
    /\ IF cacheFile.state = "valid" THEN PopBulkLoad(cacheFile.data) ELSE PopFail

\* docfxProject.getTopics completes with the scanned topics.
PopScanDone ==
    /\ pop.pc = "scan"
    /\ \E r \in ScanResults(pop.scanProject) : PopBulkLoad(r)

\* docfxProject.getTopics throws.
PopScanFails ==
    /\ pop.pc = "scan"
    /\ PopFail

\* --------------------------------------------------------------- persist
\* persist() returns or throws.  Task 0 is awaited inside the try block of
\* loadTopicMetadata (return true / catch: return false); the others are awaited
\* by handleTopicChange, whose rejection is logged by the subscriber.
PersistEnds(i, ok) ==
    /\ persistTasks' = [persistTasks EXCEPT ![i] = IdlePersist]
    /\ IF i = 0
       THEN Settle(IF ok THEN "true" ELSE "false")
       ELSE UNCHANGED <<populatingPromise, pop, callVars, popOutcome>>
    /\ UNCHANGED <<docfxProject, topics, topicsByContentFile, openTask, flushTask,
                   rejections, lastWrite>>

\* persist(), line 125: the state directory exists; serialise this.topics and
\* start writing, or go on to delete the snapshot when this.topics is null.
PersistSerialize(i) ==
    /\ persistTasks' = [persistTasks EXCEPT ![i] =
                           IF topics.isNull
                           THEN [pc |-> "fileExists", data |-> <<>>]
                           ELSE [pc |-> "write", data |-> topics.v]]
    /\ UNCHANGED <<cacheVars, pop, openTask, flushTask, callVars, histVars>>

\* fs.exists(stateDirectory) completes.
PersistDirExists(i) ==
    /\ persistTasks[i].pc = "dirExists"
    /\ IF stateDirExists
       THEN PersistSerialize(i) /\ UNCHANGED diskVars
       ELSE /\ persistTasks' = [persistTasks EXCEPT ![i].pc = "mkdir"]
            /\ UNCHANGED <<cacheVars, diskVars, pop, openTask, flushTask, callVars, histVars>>

\* fs.mkdir(stateDirectory) completes, or fails because the directory exists.
PersistMkdir(i) ==
    /\ persistTasks[i].pc = "mkdir"
    /\ IF stateDirExists
       THEN PersistEnds(i, FALSE) /\ UNCHANGED diskVars
       ELSE /\ stateDirExists' = TRUE
            /\ PersistSerialize(i)
            /\ UNCHANGED cacheFile

\* fs.writeFile(cacheFile, stateData) completes.
PersistWrite(i) ==
    /\ persistTasks[i].pc = "write"
    /\ cacheFile' = ValidFile(persistTasks[i].data)
    /\ PersistEnds(i, TRUE)
    /\ UNCHANGED stateDirExists

\* fs.exists(cacheFile) completes (this.topics was null).
PersistFileExists(i) ==
    /\ persistTasks[i].pc = "fileExists"
    /\ IF cacheFile.state # "absent"
       THEN /\ persistTasks' = [persistTasks EXCEPT ![i].pc = "unlink"]
            /\ UNCHANGED <<cacheVars, diskVars, pop, openTask, flushTask, callVars, histVars>>
       ELSE PersistEnds(i, TRUE) /\ UNCHANGED diskVars

\* fs.unlink(cacheFile) completes, or fails because the file is gone.
PersistUnlink(i) ==
    /\ persistTasks[i].pc = "unlink"
    /\ IF cacheFile.state = "absent"
       THEN PersistEnds(i, FALSE) /\ UNCHANGED diskVars
       ELSE /\ cacheFile' = NoFile
            /\ PersistEnds(i, TRUE)
            /\ UNCHANGED stateDirExists

\* ---------------------------------------------------- change notifications
\* The topics a notification carries, none when the field is absent.
ChangeTopics(change) == IF "topics" \in DOMAIN change THEN change.topics ELSE <<>>

\* The subscriber of topicChangeSubject: handleTopicChange(change) up to the
\* first suspension of persist().  With a null index the first statement of
\* either case throws; the rejection is logged by the subscriber.
HandleTopicChange(change) ==
    IF topicsByContentFile.isNull \/ topics.isNull
    THEN UNCHANGED <<cacheVars, diskVars, taskVars, callVars, histVars>>
    ELSE /\ \E i \in ChangeTasks : persistTasks[i].pc = "idle"
         /\ LET i == CHOOSE j \in ChangeTasks :
                        /\ persistTasks[j].pc = "idle"
                        /\ \A k \in ChangeTasks : persistTasks[k].pc = "idle" => j <= k
                idx == ApplyChange(CurrentIndex, change)
            IN  /\ topics' = Some(idx.topics)
                /\ topicsByContentFile' = Some(idx.byFile)
                /\ persistTasks' = [persistTasks EXCEPT ![i] = [pc |-> "dirExists", data |-> <<>>]]
                /\ lastWrite' = WriteAll(lastWrite, ChangeTopics(change))
                /\ UNCHANGED <<docfxProject, populatingPromise, diskVars, pop, openTask,
                               flushTask, callVars, rejections, popOutcome>>

\* ------------------------------------------------- flush / open / close
\* flush(), lines 108-109.
FlushIndex ==
    /\ topics' = Null
    /\ topicsByContentFile' = Null
    /\ lastWrite' = NothingWritten

\* The public flush(clearWorkspaceState), up to its first suspension.
Flush(clearWorkspaceState) ==
    /\ flushTask = "none"
    /\ FlushIndex
    /\ flushTask' = IF clearWorkspaceState THEN "exists" ELSE "none"
    /\ UNCHANGED <<docfxProject, populatingPromise, diskVars, pop, persistTasks, openTask,
                   callVars, rejections, popOutcome>>

\* flush: fs.exists(cacheFile) completes.
FlushExists ==
    /\ flushTask = "exists"
    /\ flushTask' = IF cacheFile.state # "absent" THEN "unlink" ELSE "none"
    /\ UNCHANGED <<cacheVars, diskVars, pop, persistTasks, openTask, callVars, histVars>>

\* flush: fs.unlink(cacheFile) completes, or fails because the file is gone.
FlushUnlink ==
    /\ flushTask = "unlink"
    /\ flushTask' = "none"
    /\ IF cacheFile.state = "absent"
       THEN rejections' = rejections \cup {"flush"} /\ UNCHANGED cacheFile
       ELSE cacheFile' = NoFile /\ UNCHANGED rejections
    /\ UNCHANGED <<cacheVars, stateDirExists, pop, persistTasks, openTask, callVars,
                   popOutcome, lastWrite>>

\* openProject(docfxProjectFile), up to its first suspension.
OpenProject(p) ==
    /\ openTask.pc = "none"
    /\ IF docfxProject # NoProject /\ docfxProject = p
       THEN UNCHANGED <<cacheVars, diskVars, taskVars, callVars, histVars>>
       ELSE /\ FlushIndex
            /\ openTask' = [pc |-> IF docfxProject # NoProject THEN "flushExists" ELSE "load",
                            file |-> p]
            /\ UNCHANGED <<docfxProject, populatingPromise, diskVars, pop, persistTasks,
                           flushTask, callVars, rejections, popOutcome>>

\* openProject -> flush(true): fs.exists(cacheFile) completes.
OpenFlushExists ==
    /\ openTask.pc = "flushExists"
    /\ openTask' = [openTask EXCEPT !.pc = IF cacheFile.state # "absent"
                                           THEN "flushUnlink" ELSE "load"]
    /\ UNCHANGED <<cacheVars, diskVars, pop, persistTasks, flushTask, callVars, histVars>>

\* openProject -> flush(true): fs.unlink(cacheFile) completes, or fails.
OpenFlushUnlink ==
    /\ openTask.pc = "flushUnlink"
    /\ IF cacheFile.state = "absent"
       THEN /\ openTask' = IdleOpen
            /\ rejections' = rejections \cup {"openProject"}
            /\ UNCHANGED cacheFile
       ELSE /\ openTask' = [openTask EXCEPT !.pc = "load"]
            /\ cacheFile' = NoFile
            /\ UNCHANGED rejections
    /\ UNCHANGED <<cacheVars, stateDirExists, pop, persistTasks, flushTask, callVars,
                   popOutcome, lastWrite>>

\* openProject: DocFXProject.load resolves and the handle is stored.
OpenLoad ==
    /\ openTask.pc = "load"
    /\ docfxProject' = openTask.file
    /\ openTask' = IdleOpen
    /\ UNCHANGED <<topics, topicsByContentFile, populatingPromise, diskVars, pop,
                   persistTasks, flushTask, callVars, histVars>>

\* openProject: DocFXProject.load rejects (unreadable or malformed docfx.json).
OpenLoadFails ==
    /\ openTask.pc = "load"
    /\ openTask' = IdleOpen
    /\ rejections' = rejections \cup {"openProject"}
    /\ UNCHANGED <<cacheVars, diskVars, pop, persistTasks, flushTask, callVars,
                   popOutcome, lastWrite>>

\* closeProject()
CloseProject ==
    /\ docfxProject' = NoProject
    /\ UNCHANGED <<topics, topicsByContentFile, populatingPromise, diskVars, taskVars,
                   callVars, histVars>>

\* ---------------------------------------------------------------- queries
\* The result of a synchronous query: it throws, or returns value (null: found
\* is FALSE).
Throws == [throws |-> TRUE, found |-> FALSE, value |-> <<>>]
Returns(found, value) == [throws |-> FALSE, found |-> found, value |-> value]

\* getTopicMetadataByUID(uid): this.topics.get on a null map is a TypeError;
\* otherwise null, or a copy of the topic.
getTopicMetadataByUID(uid) ==
    IF topics.isNull THEN Throws
    ELSE IF MapHas(topics.v, uid) THEN Returns(TRUE, <<MapGet(topics.v, uid)>>)
    ELSE Returns(FALSE, <<>>)

\* topicCount: this.topics.size.
topicCount ==
    IF topics.isNull THEN Throws ELSE Returns(TRUE, <<Len(topics.v)>>)

\* The order of uids under String.prototype.localeCompare.
UidsInOrder == <<"a.Method", "a.Type", "b.Type", "u", "w">>
UidRank(u) == CHOOSE i \in DOMAIN UidsInOrder : UidsInOrder[i] = u
\* A comparator with its operands swapped.
localeCompareSwapped(a, b) == UidRank(b) - UidRank(a)
localeCompare(a, b) == UidRank(a) - UidRank(b)

\* Array.prototype.sort with the comparator of getUIDCompletionListItems.
RECURSIVE InsertByUid(_, _)
InsertByUid(sorted, t) ==
    IF sorted = <<>> THEN <<t>>
    ELSE IF localeCompare(t.uid, Head(sorted).uid) < 0 THEN <<t>> \o sorted
    ELSE <<Head(sorted)>> \o InsertByUid(Tail(sorted), t)
RECURSIVE SortByUid(_)
SortByUid(ts) ==
    IF ts = <<>> THEN <<>> ELSE InsertByUid(SortByUid(Tail(ts)), Head(ts))

\* getUIDCompletionListItems(): Array.from(this.topics.values()) on a null map
\* is a TypeError; otherwise one item per topic, sorted by uid.
getUIDCompletionListItems ==
    IF topics.isNull THEN Throws
    ELSE Returns(TRUE, [i \in DOMAIN topics.v |-> SortByUid(topics.v)[i].uid])

\* ---------------------------------------------------------- change adapter
\* observeTopicChanges and its subscription by the extension.  watch.events
\* are the events the file watcher has raised, in order; watch.pending the
\* events whose notify() awaits the topic extraction; watch.emitted the events
\* whose notification has been passed to subscriber.next, in order.
MaxEvents == 2
\* Longest topic list the extractor returns for one watcher event.
MaxExtractedTopics == 1

WatcherEvents == [file : Files, changeType : {Added, Changed, Removed}]

\* A notification whose contentFile is the watcher's absolute path.
NotificationAbsolute(event, ts) ==
    IF event.changeType # Removed
    THEN TopicChange(event.changeType, AbsPath(WatchedProject, event.file), ts)
    ELSE [changeType |-> event.changeType,
          contentFile |-> AbsPath(WatchedProject, event.file)]

\* The notification notify() builds for a watcher event on the absolute path
\* of event.file: topics is assigned for Added / Changed only.
Notification(event, ts) ==
    IF event.changeType # Removed
    THEN TopicChange(event.changeType,
                     relative(WatchedProject, AbsPath(WatchedProject, event.file)), ts)
    ELSE [changeType |-> event.changeType,
          contentFile |-> relative(WatchedProject, AbsPath(WatchedProject, event.file))]

\* activate: with a project open, the cache's topicChanges observer is
\* subscribed to observeTopicChanges, which starts the file watcher.
Subscribe ==
    /\ docfxProject = WatchedProject
    /\ watch.subscription = "none"
    /\ watch' = [watch EXCEPT !.subscription = "active"]
    /\ UNCHANGED <<cacheSide, scan, query, glob, search, refresh, frontMatter>>

\* The file watcher raises add / change / unlink for a content file and the
\* handler calls notify(): a Removed notification is emitted at once, an
\* Added / Changed one after the awaited topic extraction.
WatcherEvent(event) ==
    /\ watch.subscription = "active"
    /\ Len(watch.events) < MaxEvents
    /\ LET i == Len(watch.events) + 1
       IN  IF event.changeType = Removed
           THEN /\ HandleTopicChange(Notification(event, <<>>))
                /\ watch' = [watch EXCEPT !.events = Append(@, event),
                                          !.emitted = Append(@, i),
                                          !.notifications =
                                              Append(@, Notification(event, <<>>))]
           ELSE /\ watch' = [watch EXCEPT !.events = Append(@, event),
                                          !.pending = @ \cup {i}]
                /\ UNCHANGED <<cacheVars, diskVars, taskVars, callVars, histVars>>
    /\ UNCHANGED <<budget, scan, query, glob, search, refresh, frontMatter>>

\* getFileTopics resolves for the event's file: notify() passes the
\* notification to subscriber.next, which delivers it to the cache unless the
\* subscription has ended.
ExtractionDone(i, ts) ==
    /\ i \in watch.pending
    /\ IF watch.subscription = "active"
       THEN /\ HandleTopicChange(Notification(watch.events[i], ts))
            /\ watch' = [watch EXCEPT !.pending = @ \ {i}, !.emitted = Append(@, i),
                                      !.notifications =
                                          Append(@, Notification(watch.events[i], ts))]
       ELSE /\ watch' = [watch EXCEPT !.pending = @ \ {i}]
            /\ UNCHANGED <<cacheVars, diskVars, taskVars, callVars, histVars>>
    /\ UNCHANGED <<budget, scan, query, glob, search, refresh, frontMatter>>

\* getFileTopics rejects: notify() rejects and its catch handler calls
\* subscriber.error, which ends the subscription (the subject it feeds is
\* stopped and the teardown closes the watcher).
ExtractionFails(i) ==
    /\ i \in watch.pending
    /\ watch' = [watch EXCEPT !.pending = @ \ {i},
                              !.subscription = IF @ = "active" THEN "errored" ELSE @]
    /\ UNCHANGED <<cacheSide, scan, query, glob, search, refresh, frontMatter>>

\* deactivate: closeProject(), after which the extension's subscriptions,
\* the topic-change subscription among them, are disposed.
Deactivate ==
    /\ budget.closes > 0
    /\ budget' = [budget EXCEPT !.closes = @ - 1]
    /\ CloseProject
    /\ watch' = [watch EXCEPT !.subscription = IF @ = "active" THEN "unsubscribed" ELSE @]
    /\ UNCHANGED <<scan, query, glob, search, refresh, frontMatter>>

\* ------------------------------------------------------------ list queries
\* enum TopicType
Conceptual == 1
Namespace == 2
Type == 3
Property == 4
Method == 5
PowerShellCmdlet == 6
Other == 6
\* An omitted topicType argument (undefined, falsy).
NoTopicType == 0

\* The body shared by getUIDCompletionListItems and getUIDQuickPickItems: the
\* map's values, filtered by detailedType when a topic type is given, sorted
\* by uid.
ListTopics(topicMetadata, topicType) ==
    LET filtered == IF topicType # NoTopicType
                    THEN SelectSeq(topicMetadata, LAMBDA metadata : metadata.detailedType = topicType)
                    ELSE topicMetadata
    IN  SortByUid(filtered)

\* The labels of the items built from the listed topics.
ItemLabels(ts) == [i \in DOMAIN ts |-> ts[i].uid]

\* The topics a query can meet in the index, and the filters it can be given.
MaxQueryTopics == 3
QueryUids == {"a.Method", "a.Type", "b.Type"}
QueryTypes == {Conceptual, Method, Other}
QueryTopics == [uid : QueryUids, detailedType : QueryTypes]
QueryIndexes ==
    {ts \in SeqsUpTo(QueryTopics, MaxQueryTopics) :
        \A i, j \in DOMAIN ts : ts[i].uid = ts[j].uid => i = j}

\* getUIDCompletionListItems(topicType) over a populated index.
GetUIDCompletionListItems ==
    /\ query.result = "none"
    /\ query' = [query EXCEPT !.result = "completionItems",
                              !.items = ItemLabels(ListTopics(query.topics, query.topicType))]
    /\ UNCHANGED <<cacheSide, watch, scan, glob, search, refresh, frontMatter>>

\* getUIDQuickPickItems(topicType), once ensurePopulated() has answered true.
GetUIDQuickPickItems ==
    /\ query.result = "none"
    /\ query' = [query EXCEPT !.result = "quickPickItems",
                              !.items = ItemLabels(ListTopics(query.topics, query.topicType))]
    /\ UNCHANGED <<cacheSide, watch, scan, glob, search, refresh, frontMatter>>

\* ------------------------------------------------------------ project scan
\* A content file on disk: its path and what its text holds.  For a markdown
\* file form says whether it has no front matter ("none"), front matter that
\* cannot be parsed ("malformed") or front matter declaring uid ("data", uid ""
\* when it declares none); for a YAML file whether it lacks the ManagedReference
\* MIME line ("none"), cannot be parsed ("malformed") or holds one item with
\* the given uid and type ("data").  type, name and title are what the data
\* declares besides ("" when it declares none): for front matter the fields of
\* those names, for a managed reference item fullName and nameWithType.
ContentFile(path, form, uid, memberType) ==
    [path |-> path, form |-> form, uid |-> uid, memberType |-> memberType,
     type |-> "", name |-> "", title |-> ""]
Declaring(file, type, name, title) ==
    [file EXCEPT !.type = type, !.name = name, !.title = title]

ScanPaths == {"a.md", "b.md", "c.yml"}
\* String.endsWith on the paths above.
endsWith(path, suffix) ==
    \/ suffix = ".md" /\ path \in {"a.md", "b.md"}
    \/ suffix = ".yml" /\ path \in {"c.yml", "toc.yml"}
    \/ suffix = "toc.yml" /\ path = "toc.yml"
    \/ suffix = ".json" /\ path = "docfx.json"

\* The result of an asynchronous read: rejected, or resolved with null or a value.
Rejected == [throws |-> TRUE, isNull |-> FALSE, v |-> <<>>]
Resolved(x) == [throws |-> FALSE, isNull |-> FALSE, v |-> x]
ResolvedNull == [throws |-> FALSE, isNull |-> TRUE, v |-> <<>>]

\* readYamlFrontMatter: loadFront throws on front matter that is not YAML;
\* null when the file has no front matter.
readYamlFrontMatter(file) ==
    IF file.form = "malformed" THEN Rejected
    ELSE IF file.form = "none" THEN ResolvedNull
    ELSE Resolved(<<file>>)

\* readYaml with an expected MIME type: null when the file does not start
\* with the MIME line; yaml.safeLoad throws on text that is not YAML.
readYaml(file) ==
    IF file.form = "none" THEN ResolvedNull
    ELSE IF file.form = "malformed" THEN Rejected
    ELSE Resolved(<<file>>)

\* A topic as the extractors build it (detailedType NoTopicType: not set yet).
ExtractedTopic(uid, type, name, title, memberType, sourceFile, detailedType) ==
    [uid |-> uid, type |-> type, name |-> name, title |-> title, memberType |-> memberType,
     sourceFile |-> sourceFile, detailedType |-> detailedType]

\* a || b on strings: the empty string is falsy.
OrElse(a, b) == IF a # "" THEN a ELSE b

parseMarkdownTopicMetadata(file) ==
    LET topicMetadata == readYamlFrontMatter(file)
    IN  IF topicMetadata.throws THEN Rejected
        ELSE IF topicMetadata.isNull THEN ResolvedNull
        ELSE IF file.uid = "" THEN ResolvedNull
        ELSE LET name == OrElse(file.name, file.uid)
             IN  Resolved(<<ExtractedTopic(file.uid, OrElse(file.type, "Conceptual"), name,
                                           OrElse(file.title, name), file.memberType,
                                           file.path, Conceptual)>>)

parseManagedReferenceYaml(file) ==
    LET mrefYaml == readYaml(file)
    IN  IF mrefYaml.throws THEN Rejected
        ELSE IF mrefYaml.isNull THEN Resolved(<<>>)
        ELSE IF file.uid = "" THEN Resolved(<<>>)
        ELSE Resolved(<<ExtractedTopic(file.uid, "Reference.Managed", file.name, file.title,
                                       file.memberType, file.path, NoTopicType)>>)

\* getTopics(contentFile); for a path that ends in neither .md nor .yml the
\* function falls off its end and resolves with undefined (ResolvedNull).
getTopics(file) ==
    IF endsWith(file.path, ".json") \/ endsWith(file.path, "toc.yml") THEN Resolved(<<>>)
    ELSE IF endsWith(file.path, ".md")
    THEN LET conceptualTopicMetadata == parseMarkdownTopicMetadata(file)
         IN  IF conceptualTopicMetadata.throws THEN Rejected
             ELSE IF conceptualTopicMetadata.isNull THEN Resolved(<<>>)
             ELSE conceptualTopicMetadata
    ELSE IF endsWith(file.path, ".yml") THEN parseManagedReferenceYaml(file)
    ELSE ResolvedNull

categorizeTopic(metadata) ==
    IF metadata.type = "Conceptual" THEN Conceptual
    ELSE IF metadata.type = "Reference.Managed"
    THEN IF metadata.memberType = "Namespace" THEN Namespace
         ELSE IF metadata.memberType \in {"Class", "Struct", "Interface", "Delegate"} THEN Type
         ELSE IF metadata.memberType = "Property" THEN Property
         ELSE IF metadata.memberType \in {"Method", "Constructor"} THEN Method
         ELSE Other
    ELSE IF metadata.type = "Reference.PowerShell"
    THEN IF metadata.memberType = "Cmdlet" THEN PowerShellCmdlet ELSE Other
    ELSE Other

\* The loop of getAllTopics over the enumerated content files: an exception
\* thrown by getTopics leaves the loop and rejects the scan, and so does the
\* TypeError of push(...undefined).
RECURSIVE ScanLoop(_, _)
ScanLoop(contentFiles, topicMetadata) ==
    IF contentFiles = <<>> THEN Resolved(topicMetadata)
    ELSE LET contentFileTopicMetadata == getTopics(Head(contentFiles))
         IN  IF contentFileTopicMetadata.throws \/ contentFileTopicMetadata.isNull
             THEN Rejected
             ELSE ScanLoop(Tail(contentFiles), topicMetadata \o contentFileTopicMetadata.v)

\* getAllTopics, given the enumerated content files.
getAllTopics(contentFiles) ==
    LET scanned == ScanLoop(contentFiles, <<>>)
    IN  IF scanned.throws THEN Rejected
        ELSE Resolved([i \in DOMAIN scanned.v |->
                          [scanned.v[i] EXCEPT !.detailedType = categorizeTopic(scanned.v[i])]])

\* The content files a scan can meet.
MaxScanFiles == 3
ScanFileContents ==
    {ContentFile(path, form, uid, IF endsWith(path, ".yml") /\ form = "data" THEN "Class" ELSE "") :
        path \in ScanPaths, form \in {"none", "malformed", "data"}, uid \in {"", "x"}}
ScanFiles == {file \in ScanFileContents : file.form = "data" \/ file.uid = ""}
ScanInputs ==
    {files \in SeqsUpTo(ScanFiles, MaxScanFiles) :
        \A i, j \in DOMAIN files : files[i].path = files[j].path => i = j}

\* A scan: getAllTopics runs to its end.
GetAllTopics ==
    /\ scan.result = "none"
    /\ LET r == getAllTopics(scan.files)
       IN  scan' = [scan EXCEPT !.by = "getAllTopics",
                                !.result = IF r.throws THEN "rejected" ELSE "resolved",
                                !.topics = r.v]
    /\ UNCHANGED <<cacheSide, watch, query, glob, search, refresh, frontMatter>>

\* The extraction of one content file, as the change adapter asks for it:
\* getTopics runs to its end.
GetTopics ==
    /\ scan.result = "none"
    /\ Len(scan.files) = 1
    /\ LET r == getTopics(scan.files[1])
       IN  scan' = [scan EXCEPT !.by = "getTopics",
                                !.result = IF r.throws THEN "rejected"
                                           ELSE IF r.isNull THEN "undefined" ELSE "resolved",
                                !.topics = r.v]
    /\ UNCHANGED <<cacheSide, watch, query, glob, search, refresh, frontMatter>>

\* The content one file can hold: markdown front matter declaring any of uid,
\* type, memberType, name and title; a managed reference item of any member type.
FrontMatterTypes == {"", "Conceptual", "Reference.PowerShell", "Custom"}
MemberTypes == {"Namespace", "Class", "Struct", "Interface", "Delegate", "Property",
                "Method", "Constructor", "Enum"}
MarkdownFiles ==
    {ContentFile("a.md", form, "", "") : form \in {"none", "malformed"}}
    \cup {Declaring(ContentFile("a.md", "data", uid, memberType), type, name, title) :
            uid \in {"", "x"}, memberType \in {"", "Cmdlet"}, type \in FrontMatterTypes,
            name \in {"", "N"}, title \in {"", "T"}}
ManagedReferenceFiles ==
    {ContentFile("c.yml", form, "", "") : form \in {"none", "malformed"}}
    \cup {Declaring(ContentFile("c.yml", "data", uid, memberType), "", "x.N", "N") :
            uid \in {"", "x"}, memberType \in MemberTypes}
\* A table of contents, a JSON file and a file of another kind.
OtherPaths == {"toc.yml", "docfx.json", "logo.txt"}
OtherFiles == {ContentFile(path, form, "x", "") : path \in OtherPaths, form \in {"none", "data"}}
ExtractFiles == MarkdownFiles \cup ManagedReferenceFiles \cup OtherFiles

\* ------------------------------------------------------ content file globs
\* A path is the sequence of its names below the project directory, a glob
\* pattern the sequence of its '/'-separated segments.  A segment is the
\* globstar "**", "*.ext", "**.ext" or a literal name.
GlobStar == [kind |-> "**", text |-> ""]
Star(ext) == [kind |-> "*.", text |-> ext]
StarStar(ext) == [kind |-> "**.", text |-> ext]
Literal(name) == [kind |-> "literal", text |-> name]

\* The files below the project directory, in the order glob reports them.
TreeFiles ==
    << <<"a", "b", "readme.md">>, <<"a", "readme.md">>, <<"a", "x.yml">>,
       <<"readme.md">>, <<"s.json">> >>

\* The text after the last '.' of a name of the tree.
Extension(name) ==
    CASE name = "readme.md" -> "md"
      [] name = "x.yml" -> "yml"
      [] name = "s.json" -> "json"
      [] OTHER -> ""

\* minimatch on one path segment: a "**" that is not a whole segment is a "*".
segmentMatches(segment, name) ==
    CASE segment.kind = "literal" -> name = segment.text
      [] segment.kind \in {"*.", "**."} -> Extension(name) = segment.text
      [] OTHER -> TRUE

\* Minimatch.match(path): a globstar segment matches any number of directories.
RECURSIVE match(_, _)
match(pattern, path) ==
    IF pattern = <<>> THEN path = <<>>
    ELSE IF Head(pattern).kind = "**"
    THEN \/ match(Tail(pattern), path)
         \/ path # <<>> /\ match(pattern, Tail(path))
    ELSE /\ path # <<>>
         /\ segmentMatches(Head(pattern), Head(path))
         /\ match(Tail(pattern), Tail(path))

\* pattern.endsWith('.json')
endsWithJson(pattern) ==
    /\ pattern # <<>>
    /\ LET last == pattern[Len(pattern)]
       IN  \/ last.kind \in {"*.", "**."} /\ last.text = "json"
           \/ last.kind = "literal" /\ Extension(last.text) = "json"

\* createMatchers for one pattern: a pattern with a segment "**.ext" becomes
\* the two patterns with "*.ext" and "**/*.ext" in its place.
createMatcher(pattern) ==
    IF \E i \in DOMAIN pattern : pattern[i].kind = "**."
    THEN LET first == CHOOSE i \in DOMAIN pattern :
                          /\ pattern[i].kind = "**."
                          /\ \A j \in DOMAIN pattern : pattern[j].kind = "**." => i <= j
             ext == pattern[first].text
         IN  << [pattern EXCEPT ![first] = Star(ext)],
                SubSeq(pattern, 1, first - 1) \o <<GlobStar, Star(ext)>>
                    \o SubSeq(pattern, first + 1, Len(pattern)) >>
    ELSE <<pattern>>

RECURSIVE createMatchers(_)
createMatchers(patterns) ==
    IF patterns = <<>> THEN <<>>
    ELSE createMatcher(Head(patterns)) \o createMatchers(Tail(patterns))

\* Is the path below the directory, and its names from there on.
IsUnder(baseDir, path) ==
    Len(path) > Len(baseDir) /\ SubSeq(path, 1, Len(baseDir)) = baseDir
RelativeTo(baseDir, path) == SubSeq(path, Len(baseDir) + 1, Len(path))

\* new FileMatcher(baseDir, includePatterns, excludePatterns)
FileMatcher(baseDir, includePatterns, excludePatterns) ==
    [baseDir |-> baseDir,
     includeMatchers |-> createMatchers(includePatterns),
     excludeMatchers |-> createMatchers(excludePatterns)]

\* A shouldIncludeFile that asks the include matchers first.
shouldIncludeFileIncludeFirst(matcher, filePath) ==
    LET relativeFilePath == RelativeTo(matcher.baseDir, filePath)
    IN  IF \E i \in DOMAIN matcher.includeMatchers :
              match(matcher.includeMatchers[i], relativeFilePath)
        THEN TRUE
        ELSE FALSE

\* FileMatcher.shouldIncludeFile(filePath)
shouldIncludeFile(matcher, filePath) ==
    LET relativeFilePath == RelativeTo(matcher.baseDir, filePath)
    IN  IF \E i \in DOMAIN matcher.excludeMatchers :
              match(matcher.excludeMatchers[i], relativeFilePath)
        THEN FALSE
        ELSE \E i \in DOMAIN matcher.includeMatchers :
                 match(matcher.includeMatchers[i], relativeFilePath)

\* A content entry of docfx.json: files (may be missing), exclude, src.
ContentEntry(files, exclude, src) == [files |-> files, exclude |-> exclude, src |-> src]
NotJson(patterns) == SelectSeq(patterns, LAMBDA pattern : ~endsWithJson(pattern))

\* getProjectContentFileMatchers(projectFile): the patterns of all entries
\* that have include patterns, matched from the project directory.
RECURSIVE MatcherPatterns(_, _, _)
MatcherPatterns(content, includePatterns, excludePatterns) ==
    IF content = <<>> THEN FileMatcher(<<>>, includePatterns, excludePatterns)
    ELSE LET contentEntry == Head(content)
         IN  IF contentEntry.files.isNull \/ NotJson(contentEntry.files.v) = <<>>
             THEN MatcherPatterns(Tail(content), includePatterns, excludePatterns)
             ELSE MatcherPatterns(Tail(content),
                                  includePatterns \o NotJson(contentEntry.files.v),
                                  excludePatterns \o NotJson(contentEntry.exclude))
getProjectContentFileMatchers(content) == MatcherPatterns(content, <<>>, <<>>)

\* findFiles(baseDir, globPattern): glob matches the pattern as given.
findFiles(baseDir, globPattern) ==
    SelectSeq(TreeFiles, LAMBDA path :
        IsUnder(baseDir, path) /\ match(globPattern, RelativeTo(baseDir, path)))

\* getFiles(baseDirectory, ...globPatterns)
RECURSIVE getFiles(_, _)
getFiles(baseDirectory, globPatterns) ==
    IF globPatterns = <<>> THEN <<>>
    ELSE findFiles(baseDirectory, Head(globPatterns))
            \o getFiles(baseDirectory, Tail(globPatterns))

\* getProjectContentFiles(projectFile)
RECURSIVE getProjectContentFiles(_)
getProjectContentFiles(content) ==
    IF content = <<>> THEN <<>>
    ELSE LET contentEntry == Head(content)
             entryBaseDirectory == IF contentEntry.src = "" THEN <<>> ELSE <<contentEntry.src>>
         IN  IF contentEntry.files.isNull \/ NotJson(contentEntry.files.v) = <<>>
             THEN getProjectContentFiles(Tail(content))
             ELSE getFiles(entryBaseDirectory, NotJson(contentEntry.files.v))
                     \o getProjectContentFiles(Tail(content))

\* The project configurations an enumeration can meet.
MaxPatterns == 1
MaxGroups == 2
IncludePatterns ==
    {<<StarStar("md")>>, <<Star("md")>>, <<GlobStar, Star("md")>>,
     <<Literal("a"), GlobStar>>, <<Star("json")>>}
ExcludePatterns == {<<Literal("a"), GlobStar>>, <<StarStar("md")>>}
ContentEntries ==
    {ContentEntry(files, exclude, src) :
        files \in {Null} \cup {Some(patterns) : patterns \in SeqsUpTo(IncludePatterns, MaxPatterns)},
        exclude \in SeqsUpTo(ExcludePatterns, MaxPatterns),
        src \in {"", "a"}}
ProjectContents == SeqsUpTo(ContentEntries, MaxGroups)

\* The initial scan enumerates the content files of the project.
GetProjectContentFiles ==
    /\ glob.result = "none"
    /\ glob' = [glob EXCEPT !.result = "files",
                            !.files = getProjectContentFiles(glob.project)]
    /\ UNCHANGED <<cacheSide, watch, scan, query, search, refresh, frontMatter>>

\* The matcher of the project is asked about one file.
ShouldIncludeFile ==
    /\ glob.result = "none"
    /\ glob' = [glob EXCEPT !.result = "included",
                            !.included = shouldIncludeFile(
                                getProjectContentFileMatchers(glob.project), glob.filePath)]
    /\ UNCHANGED <<cacheSide, watch, scan, query, search, refresh, frontMatter>>

\* ------------------------------------------------------- project search
\* new MetadataCacheError(message, isWarning) and MetadataCacheError.warning.
MetadataCacheError(message, isWarning) == [message |-> message, isWarning |-> isWarning]
warning(message) == MetadataCacheError(message, TRUE)
\* An error of another class: it has no isWarning property (falsy).
ScanError == [message |-> "scanError", isWarning |-> FALSE]

\* What reaches the progress observer: progress.next and progress.error.
ProgressNext(message) == [kind |-> "next", message |-> message, isWarning |-> FALSE]
ProgressError(error) == [kind |-> "error", message |-> error.message, isWarning |-> error.isWarning]

\* The outcome of a search: what it reported, what it returned or threw.
SearchOutcome(progress, result, thrown) ==
    [progress |-> progress, result |-> result, thrown |-> thrown]

\* getDocFXProjectFile(workspaceState, progress, ignoreMissingProjectFile).
\* s.cached: no cached project file, one that exists or one that is gone;
\* s.findFails: workspace.findFiles rejects; s.inWorkspace: it finds docfx.json.
getDocFXProjectFile(s) ==
    LET scanning == <<ProgressNext("Scanning workspace")>>
    IN  IF s.cached = "exists"
        THEN SearchOutcome(scanning \o <<ProgressNext("Found cached project file")>>,
                           "cachedProjectFile", <<>>)
        ELSE IF s.findFails
        THEN SearchOutcome(scanning \o <<ProgressError(ScanError)>>, "null", <<>>)
        ELSE IF ~s.inWorkspace
        THEN IF ~s.ignoreMissingProjectFile
             THEN SearchOutcome(scanning \o <<ProgressError(warning("Cannot find docfx.json"))>>,
                                "null", <<>>)
             ELSE SearchOutcome(scanning \o <<ProgressNext("No DocFX project files found")>>,
                                "null", <<>>)
        ELSE SearchOutcome(scanning \o <<ProgressNext("Caching DocFX project file"),
                                         ProgressNext("DocFX project file cached")>>,
                           "projectFile", <<>>)

\* findDocFXProjectFile(progress, ignoreMissingProjectFile), the private
\* method of the earlier cache: no try block around the search.
findDocFXProjectFile(s) ==
    IF s.cached = "exists" THEN SearchOutcome(<<>>, "cachedProjectFile", <<>>)
    ELSE IF s.findFails THEN SearchOutcome(<<>>, "throws", <<ScanError>>)
    ELSE IF ~s.inWorkspace
    THEN IF ~s.ignoreMissingProjectFile
         THEN SearchOutcome(<<ProgressError(warning("Cannot find docfx.json"))>>, "null", <<>>)
         ELSE SearchOutcome(<<>>, "null", <<>>)
    ELSE SearchOutcome(<<>>, "projectFile", <<>>)

\* ensureOpenProject()
ensureOpenProject ==
    IF docfxProject = NoProject
    THEN SearchOutcome(<<>>, "throws",
                       <<MetadataCacheError("No DocFX project is currently open.", FALSE)>>)
    ELSE SearchOutcome(<<>>, "returns", <<>>)

\* One of the three runs to its end; the search records what came of it and
\* whether a project was open.
Searched(by, outcome) ==
    /\ search.by = "none"
    /\ search' = [search EXCEPT !.by = by, !.open = (docfxProject # NoProject),
                                !.progress = outcome.progress,
                                !.result = outcome.result, !.thrown = outcome.thrown]
    /\ UNCHANGED <<cacheSide, watch, scan, query, glob, refresh, frontMatter>>
GetDocFXProjectFile == Searched("getDocFXProjectFile", getDocFXProjectFile(search))
FindDocFXProjectFile == Searched("findDocFXProjectFile", findDocFXProjectFile(search))
EnsureOpenProject == Searched("ensureOpenProject", ensureOpenProject)

\* ------------------------------------------------------- refresh command
\* handleRefreshTopicUIDs: flush(true), closeProject(), tryOpenDocFXProject,
\* ensurePopulated().  refresh.pc is the await the handler is suspended at;
\* refresh.source is what the last load of the index read since the command.
\* The command is invoked: flush(true) up to fs.exists.  activate registers
\* the command after it awaited its own openProject.
RefreshTopicUIDs ==
    /\ refresh.pc = "none"
    /\ openTask.pc = "none"
    /\ Flush(TRUE)
    /\ refresh' = [pc |-> "flush", source |-> "none"]
    /\ UNCHANGED <<budget, watch, scan, query, glob, search, frontMatter>>

\* flush: fs.exists completes.  Without a snapshot file flush returns and the
\* handler goes on: closeProject(), then the search for the project file.
RefreshFlushExists ==
    /\ refresh.pc = "flush"
    /\ flushTask = "exists"
    /\ IF cacheFile.state # "absent"
       THEN /\ flushTask' = "unlink"
            /\ UNCHANGED <<docfxProject, refresh>>
       ELSE /\ flushTask' = "none"
            /\ docfxProject' = NoProject
            /\ refresh' = [refresh EXCEPT !.pc = "search"]
    /\ UNCHANGED <<topics, topicsByContentFile, populatingPromise, diskVars, pop,
                   persistTasks, openTask, callVars, histVars>>
    /\ UNCHANGED <<budget, watch, scan, query, glob, search, frontMatter>>

\* flush: fs.unlink completes and the handler goes on, or fails because the
\* file is gone and the handler rejects.
RefreshFlushUnlink ==
    /\ refresh.pc = "flush"
    /\ flushTask = "unlink"
    /\ flushTask' = "none"
    /\ IF cacheFile.state = "absent"
       THEN /\ rejections' = rejections \cup {"flush"}
            /\ refresh' = [refresh EXCEPT !.pc = "failed"]
            /\ UNCHANGED <<cacheFile, docfxProject>>
       ELSE /\ cacheFile' = NoFile
            /\ docfxProject' = NoProject
            /\ refresh' = [refresh EXCEPT !.pc = "search"]
            /\ UNCHANGED rejections
    /\ UNCHANGED <<topics, topicsByContentFile, populatingPromise, stateDirExists, pop,
                   persistTasks, openTask, callVars, popOutcome, lastWrite>>
    /\ UNCHANGED <<budget, watch, scan, query, glob, search, frontMatter>>

\* tryOpenDocFXProject: the project file is found and openProject is called.
RefreshOpen ==
    /\ refresh.pc = "search"
    /\ OpenProject(WatchedProject)
    /\ refresh' = [refresh EXCEPT !.pc = "open"]
    /\ UNCHANGED <<budget, watch, scan, query, glob, search, frontMatter>>

\* openProject returns (the handler goes on to ensurePopulated) or rejects.
RefreshOpenLoad ==
    /\ refresh.pc = "open"
    /\ OpenLoad
    /\ refresh' = [refresh EXCEPT !.pc = "opened"]
    /\ UNCHANGED <<budget, watch, scan, query, glob, search, frontMatter>>
RefreshOpenLoadFails ==
    /\ refresh.pc = "open"
    /\ OpenLoadFails
    /\ refresh' = [refresh EXCEPT !.pc = "failed"]
    /\ UNCHANGED <<budget, watch, scan, query, glob, search, frontMatter>>

\* The handler's ensurePopulated(): it answers at once, rejects, or awaits
\* the population it started or joined.
RefreshPopulate ==
    /\ refresh.pc = "opened"
    /\ EnsurePopulated
    /\ refresh' = [refresh EXCEPT !.pc =
                      IF projectFile # NoProject /\ ~topics.isNull THEN "done"
                      ELSE IF populatingPromise = "rejected" \/ docfxProject = NoProject
                      THEN "failed"
                      ELSE "populate"]
    /\ UNCHANGED <<budget, watch, scan, query, glob, search, frontMatter>>

\* A step of a population or of a persist(): when it settles the population
\* the handler awaits, the handler completes; a load of the index is noted.
DuringRefresh(step) ==
    /\ step
    /\ refresh' = [refresh EXCEPT
                      !.pc = IF @ = "populate" /\ pop.pc # "none" /\ pop'.pc = "none"
                             THEN "done" ELSE @,
                      !.source = IF pop.pc = "readFile" /\ pop'.pc = "persist" THEN "snapshot"
                                 ELSE IF pop.pc = "scan" /\ pop'.pc = "persist" THEN "scan"
                                 ELSE @]
    /\ UNCHANGED <<budget, watch, scan, query, glob, search, frontMatter>>

\* ----------------------------------------------------- front matter reader
\* YamlFrontMatter.ReadFromFile of the language server.  A string is the
\* sequence of its lines; the empty string is <<>>.
MaxLinesOfFrontMatter == 50
FrontMatterFence == "---"

\* The lines of the files: a fence, a fence followed by blanks, a line of
\* YAML, a line of body text and an empty line.
PaddedFence == "---  "
YamlLine == "uid: x"
BodyLine == "body"
TrimLine(line) == IF line = PaddedFence THEN FrontMatterFence ELSE line

\* String.TrimEnd(): trailing white space, line ends included, is dropped.
RECURSIVE TrimEnd(_)
TrimEnd(text) ==
    IF text = <<>> THEN <<>>
    ELSE IF TrimLine(text[Len(text)]) = "" THEN TrimEnd(SubSeq(text, 1, Len(text) - 1))
    ELSE SubSeq(text, 1, Len(text) - 1) \o <<TrimLine(text[Len(text)])>>

\* IsFrontMatterFence(line), line not null
IsFrontMatterFence(line) == TrimEnd(line) = <<FrontMatterFence>>

\* What ReadFromFile returns, and the number of lines it has read.
FrontMatterResult(result, document, linesRead) ==
    [result |-> result, document |-> document, linesRead |-> linesRead]

\* yamlStream.Load(buffer) and Documents.FirstOrDefault(): null when the
\* text holds no document.
IsYaml(line) == line # "" /\ TrimLine(line) # FrontMatterFence
LoadFirstDocument(buffer, linesRead) ==
    IF SelectSeq(buffer, IsYaml) = <<>>
    THEN FrontMatterResult("null", <<>>, linesRead)
    ELSE FrontMatterResult("document", SelectSeq(buffer, IsYaml), linesRead)

\* The for loop of ReadFromFile: each iteration reads with ReadToEndAsync,
\* which returns the rest of the file (the empty string at its end, never
\* null) and leaves the reader at the end of the file.
RECURSIVE ReadLoop(_, _, _, _)
ReadLoop(file, position, lineCount, buffer) ==
    IF lineCount >= MaxLinesOfFrontMatter
    THEN FrontMatterResult("null", <<>>, position - 1)
    ELSE LET currentLine == SubSeq(file, position, Len(file))
         IN  IF IsFrontMatterFence(currentLine)
             THEN LoadFirstDocument(buffer, Len(file))
             ELSE ReadLoop(file, Len(file) + 1, lineCount + 1,
                           buffer \o (IF currentLine = <<>> THEN <<"">> ELSE currentLine))

\* ReadFromFile(file)
ReadFromFile(file) ==
    IF file = <<>> THEN FrontMatterResult("null", <<>>, 0)
    ELSE IF ~IsFrontMatterFence(<<file[1]>>) THEN FrontMatterResult("null", <<>>, 1)
    ELSE ReadLoop(file, 2, 0, <<>>)

\* The files a read can meet: a first line, some lines of YAML, a closing
\* fence or none, and what follows.
FrontMatterLengths == {0, 1, MaxLinesOfFrontMatter - 1, MaxLinesOfFrontMatter,
                       MaxLinesOfFrontMatter + 1}
FrontMatterFiles ==
    {first \o [i \in 1 .. n |-> YamlLine] \o closing \o rest :
        first \in {<<>>, <<FrontMatterFence>>, <<PaddedFence>>, <<BodyLine>>},
        n \in FrontMatterLengths,
        closing \in {<<>>, <<FrontMatterFence>>, <<PaddedFence>>},
        rest \in {<<>>, <<"">>, <<BodyLine>>}}

\* A file is read for its front matter.
ReadFrontMatter ==
    /\ frontMatter.result = "none"
    /\ LET r == ReadFromFile(frontMatter.file)
       IN  frontMatter' = [frontMatter EXCEPT !.result = r.result, !.document = r.document,
                                              !.linesRead = r.linesRead]
    /\ UNCHANGED <<cacheSide, watch, scan, query, glob, search, refresh>>

\* ---------------------------------------------------------- specification
\* One invocation of a public operation or one delivered notification.
Spend(op) ==
    /\ budget[op] > 0
    /\ budget' = [budget EXCEPT ![op] = @ - 1]
    /\ UNCHANGED auxVars

Next ==
    \/ Spend("calls") /\ EnsurePopulated
    \/ PopCacheExists /\ UNCHANGED <<budget, auxVars>>
    \/ PopReadFile /\ UNCHANGED <<budget, auxVars>>
    \/ PopScanDone /\ UNCHANGED <<budget, auxVars>>
    \/ PopScanFails /\ UNCHANGED <<budget, auxVars>>
    \/ \E i \in PersistIds : PersistDirExists(i) /\ UNCHANGED <<budget, auxVars>>
    \/ \E i \in PersistIds : PersistMkdir(i) /\ UNCHANGED <<budget, auxVars>>
    \/ \E i \in PersistIds : PersistWrite(i) /\ UNCHANGED <<budget, auxVars>>
    \/ \E i \in PersistIds : PersistFileExists(i) /\ UNCHANGED <<budget, auxVars>>
    \/ \E i \in PersistIds : PersistUnlink(i) /\ UNCHANGED <<budget, auxVars>>
    \/ \E clearWorkspaceState \in BOOLEAN : Spend("flushes") /\ Flush(clearWorkspaceState)
    \/ FlushExists /\ UNCHANGED <<budget, auxVars>>
    \/ FlushUnlink /\ UNCHANGED <<budget, auxVars>>
    \/ \E p \in Projects : Spend("opens") /\ OpenProject(p)
    \/ OpenFlushExists /\ UNCHANGED <<budget, auxVars>>
    \/ OpenFlushUnlink /\ UNCHANGED <<budget, auxVars>>
    \/ OpenLoad /\ UNCHANGED <<budget, auxVars>>
    \/ OpenLoadFails /\ UNCHANGED <<budget, auxVars>>
    \/ Spend("closes") /\ CloseProject

Spec == Init /\ [][Next]_vars

NextIndex ==
    \/ Spend("calls") /\ EnsurePopulated
    \/ PopCacheExists /\ UNCHANGED <<budget, auxVars>>
    \/ PopReadFile /\ UNCHANGED <<budget, auxVars>>
    \/ PopScanDone /\ UNCHANGED <<budget, auxVars>>
    \/ PopScanFails /\ UNCHANGED <<budget, auxVars>>
    \/ \E i \in PersistIds : PersistDirExists(i) /\ UNCHANGED <<budget, auxVars>>
    \/ \E i \in PersistIds : PersistMkdir(i) /\ UNCHANGED <<budget, auxVars>>
    \/ \E i \in PersistIds : PersistWrite(i) /\ UNCHANGED <<budget, auxVars>>
    \/ \E change \in Changes : Spend("changes") /\ HandleTopicChange(change)
    \/ \E p \in Projects : Spend("opens") /\ OpenProject(p)
    \/ OpenLoad /\ UNCHANGED <<budget, auxVars>>
    \/ OpenLoadFails /\ UNCHANGED <<budget, auxVars>>

InitIndex == InitWith([calls |-> IndexCalls, changes |-> MaxChanges, flushes |-> 0,
                       opens |-> IndexOpens, closes |-> 0])
SpecIndex == InitIndex /\ [][NextIndex]_vars

NextReload ==
    \/ Spend("calls") /\ EnsurePopulated
    \/ PopCacheExists /\ UNCHANGED <<budget, auxVars>>
    \/ PopReadFile /\ UNCHANGED <<budget, auxVars>>
    \/ PopScanDone /\ UNCHANGED <<budget, auxVars>>
    \/ PopScanFails /\ UNCHANGED <<budget, auxVars>>
    \/ \E i \in PersistIds : PersistDirExists(i) /\ UNCHANGED <<budget, auxVars>>
    \/ \E i \in PersistIds : PersistMkdir(i) /\ UNCHANGED <<budget, auxVars>>
    \/ \E i \in PersistIds : PersistWrite(i) /\ UNCHANGED <<budget, auxVars>>
    \/ \E i \in PersistIds : PersistFileExists(i) /\ UNCHANGED <<budget, auxVars>>
    \/ \E i \in PersistIds : PersistUnlink(i) /\ UNCHANGED <<budget, auxVars>>
    \/ \E change \in Changes : Spend("changes") /\ HandleTopicChange(change)
    \/ \E clearWorkspaceState \in BOOLEAN : Spend("flushes") /\ Flush(clearWorkspaceState)
    \/ FlushExists /\ UNCHANGED <<budget, auxVars>>
    \/ FlushUnlink /\ UNCHANGED <<budget, auxVars>>
    \/ \E p \in Projects : Spend("opens") /\ OpenProject(p)
    \/ OpenLoad /\ UNCHANGED <<budget, auxVars>>
    \/ OpenLoadFails /\ UNCHANGED <<budget, auxVars>>

InitReload == InitWith([calls |-> ReloadCalls, changes |-> ReloadChanges,
                        flushes |-> ReloadFlushes, opens |-> ReloadOpens, closes |-> 0])
SpecReload == InitReload /\ [][NextReload]_vars

NoBudget == [calls |-> 0, changes |-> 0, flushes |-> 0, opens |-> 0, closes |-> 0]

\* List queries over every small index.
InitList ==
    /\ InitCache(NoBudget)
    /\ watch = NoWatch
    /\ refresh = NoRefresh
    /\ frontMatter = NoFrontMatter
    /\ glob = NoGlob
    /\ search = NoSearch
    /\ scan = NoScan
    /\ query \in {[topics |-> ts, topicType |-> ty, result |-> "none", items |-> <<>>] :
                    ts \in QueryIndexes, ty \in {NoTopicType} \cup QueryTypes}
NextList ==
    \/ GetUIDCompletionListItems
    \/ GetUIDQuickPickItems
SpecList == InitList /\ [][NextList]_vars

\* Project scans over every small set of content files.
InitScan ==
    /\ InitCache(NoBudget)
    /\ watch = NoWatch
    /\ refresh = NoRefresh
    /\ frontMatter = NoFrontMatter
    /\ glob = NoGlob
    /\ search = NoSearch
    /\ query = NoQuery
    /\ scan \in {[NoScan EXCEPT !.files = files] : files \in ScanInputs}
NextScan == GetAllTopics
SpecScan == InitScan /\ [][NextScan]_vars

\* The extraction of every small content file, by a scan of a project that
\* holds only that file and by the single-file path.
InitExtract ==
    /\ InitCache(NoBudget)
    /\ watch = NoWatch
    /\ refresh = NoRefresh
    /\ frontMatter = NoFrontMatter
    /\ glob = NoGlob
    /\ search = NoSearch
    /\ query = NoQuery
    /\ scan \in {[NoScan EXCEPT !.files = <<file>>] : file \in ExtractFiles}
NextExtract ==
    \/ GetAllTopics
    \/ GetTopics
SpecExtract == InitExtract /\ [][NextExtract]_vars

\* Enumerations and matches over every small project configuration.
InitGlob ==
    /\ InitCache(NoBudget)
    /\ watch = NoWatch
    /\ refresh = NoRefresh
    /\ frontMatter = NoFrontMatter
    /\ scan = NoScan
    /\ query = NoQuery
    /\ search = NoSearch
    /\ glob \in {[NoGlob EXCEPT !.project = content, !.filePath = TreeFiles[i]] :
                    content \in ProjectContents, i \in DOMAIN TreeFiles}
NextGlob ==
    \/ GetProjectContentFiles
    \/ ShouldIncludeFile
SpecGlob == InitGlob /\ [][NextGlob]_vars

\* Searches for the project, with and without a project open.
SearchOpens == 1
InitSearch ==
    /\ InitCache([NoBudget EXCEPT !.opens = SearchOpens])
    /\ watch = NoWatch
    /\ refresh = NoRefresh
    /\ frontMatter = NoFrontMatter
    /\ scan = NoScan
    /\ query = NoQuery
    /\ glob = NoGlob
    /\ search \in {[NoSearch EXCEPT !.cached = cached, !.inWorkspace = inWorkspace,
                                    !.findFails = findFails,
                                    !.ignoreMissingProjectFile = ignoreMissingProjectFile] :
                      cached \in {"none", "exists", "gone"}, inWorkspace \in BOOLEAN,
                      findFails \in BOOLEAN, ignoreMissingProjectFile \in BOOLEAN}
NextSearch ==
    \/ \E p \in Projects : Spend("opens") /\ OpenProject(p)
    \/ OpenLoad /\ UNCHANGED <<budget, auxVars>>
    \/ OpenLoadFails /\ UNCHANGED <<budget, auxVars>>
    \/ GetDocFXProjectFile
    \/ FindDocFXProjectFile
    \/ EnsureOpenProject
SpecSearch == InitSearch /\ [][NextSearch]_vars

\* The refresh command, invoked once while the cache is in use: activate
\* opens the project, callers and change notifications come at any time.
RefreshCalls == 1
RefreshChanges == 1
RefreshOpens == 1
NextRefresh ==
    \/ Spend("calls") /\ EnsurePopulated
    \/ DuringRefresh(PopCacheExists)
    \/ DuringRefresh(PopReadFile)
    \/ DuringRefresh(PopScanDone)
    \/ DuringRefresh(PopScanFails)
    \/ \E i \in PersistIds : DuringRefresh(PersistDirExists(i))
    \/ \E i \in PersistIds : DuringRefresh(PersistMkdir(i))
    \/ \E i \in PersistIds : DuringRefresh(PersistWrite(i))
    \/ \E i \in PersistIds : DuringRefresh(PersistFileExists(i))
    \/ \E i \in PersistIds : DuringRefresh(PersistUnlink(i))
    \/ \E change \in Changes : Spend("changes") /\ HandleTopicChange(change)
    \/ refresh.pc = "none" /\ Spend("opens") /\ OpenProject(WatchedProject)
    \/ refresh.pc # "open" /\ OpenLoad /\ UNCHANGED <<budget, auxVars>>
    \/ refresh.pc # "open" /\ OpenLoadFails /\ UNCHANGED <<budget, auxVars>>
    \/ RefreshTopicUIDs
    \/ RefreshFlushExists
    \/ RefreshFlushUnlink
    \/ RefreshOpen
    \/ RefreshOpenLoad
    \/ RefreshOpenLoadFails
    \/ RefreshPopulate

InitRefresh == InitWith([calls |-> RefreshCalls, changes |-> RefreshChanges, flushes |-> 0,
                         opens |-> RefreshOpens, closes |-> 0])
SpecRefresh == InitRefresh /\ [][NextRefresh]_vars

\* The cache with notifications that arrive while earlier ones are still
\* being persisted: one project, one population, two notifications.
OverlapCalls == 1
OverlapOpens == 1
OverlapChanges == 2
MaxOverlap == 2
NextOverlap ==
    \/ Spend("calls") /\ EnsurePopulated
    \/ PopCacheExists /\ UNCHANGED <<budget, auxVars>>
    \/ PopReadFile /\ UNCHANGED <<budget, auxVars>>
    \/ PopScanDone /\ UNCHANGED <<budget, auxVars>>
    \/ PopScanFails /\ UNCHANGED <<budget, auxVars>>
    \/ \E i \in DOMAIN persistTasks : PersistDirExists(i) /\ UNCHANGED <<budget, auxVars>>
    \/ \E i \in DOMAIN persistTasks : PersistMkdir(i) /\ UNCHANGED <<budget, auxVars>>
    \/ \E i \in DOMAIN persistTasks : PersistWrite(i) /\ UNCHANGED <<budget, auxVars>>
    \/ \E change \in Changes : Spend("changes") /\ HandleTopicChange(change)
    \/ Spend("opens") /\ OpenProject(WatchedProject)
    \/ OpenLoad /\ UNCHANGED <<budget, auxVars>>
    \/ OpenLoadFails /\ UNCHANGED <<budget, auxVars>>

InitOverlap ==
    /\ InitCacheTasks([calls |-> OverlapCalls, changes |-> OverlapChanges, flushes |-> 0,
                       opens |-> OverlapOpens, closes |-> 0], MaxOverlap)
    /\ watch = NoWatch
    /\ refresh = NoRefresh
    /\ frontMatter = NoFrontMatter
    /\ glob = NoGlob
    /\ search = NoSearch
    /\ scan = NoScan
    /\ query = NoQuery
SpecOverlap == InitOverlap /\ [][NextOverlap]_vars

\* Front matter reads over every file of FrontMatterFiles.
InitFrontMatter ==
    /\ InitCache(NoBudget)
    /\ watch = NoWatch
    /\ refresh = NoRefresh
    /\ glob = NoGlob
    /\ search = NoSearch
    /\ scan = NoScan
    /\ query = NoQuery
    /\ frontMatter \in {[NoFrontMatter EXCEPT !.file = file] : file \in FrontMatterFiles}
NextFrontMatter == ReadFrontMatter
SpecFrontMatter == InitFrontMatter /\ [][NextFrontMatter]_vars

\* The cache fed by the change adapter: one project, one population.
WatchCalls == 1
WatchOpens == 1
WatchCloses == 1
NextWatch ==
    \/ Spend("calls") /\ EnsurePopulated
    \/ PopCacheExists /\ UNCHANGED <<budget, auxVars>>
    \/ PopReadFile /\ UNCHANGED <<budget, auxVars>>
    \/ PopScanDone /\ UNCHANGED <<budget, auxVars>>
    \/ PopScanFails /\ UNCHANGED <<budget, auxVars>>
    \/ \E i \in PersistIds : PersistDirExists(i) /\ UNCHANGED <<budget, auxVars>>
    \/ \E i \in PersistIds : PersistMkdir(i) /\ UNCHANGED <<budget, auxVars>>
    \/ \E i \in PersistIds : PersistWrite(i) /\ UNCHANGED <<budget, auxVars>>
    \/ \E p \in Projects : Spend("opens") /\ OpenProject(p)
    \/ OpenLoad /\ UNCHANGED <<budget, auxVars>>
    \/ OpenLoadFails /\ UNCHANGED <<budget, auxVars>>
    \/ Spend("closes") /\ CloseProject
    \/ Deactivate
    \/ Subscribe
    \/ \E event \in WatcherEvents : WatcherEvent(event)
    \/ \E i \in watch.pending :
          \E ts \in SeqsUpTo(ExtractedTopics(WatchedProject, watch.events[i].file),
                             MaxExtractedTopics) : ExtractionDone(i, ts)
    \/ \E i \in watch.pending : ExtractionFails(i)

InitWatch == InitWith([calls |-> WatchCalls, changes |-> 0, flushes |-> 0,
                       opens |-> WatchOpens, closes |-> WatchCloses])
SpecWatch == InitWatch /\ [][NextWatch]_vars

\* ------------------------------------------------------------------ claims
\* C1: all ensurePopulated() calls that overlap one population of an
\* unpopulated cache resolve to the same outcome.
C1_AllCallsSameOutcome == Cardinality(outcomes) <= 1

\* C2: a call made while a population is in flight does not resolve before
\* that population has finished.
C2_NoCallResolvesDuringPopulation == pop.pc # "none" => outcomes = {}

\* The uids of a topic list.
UidsOf(ts) == {ts[i].uid : i \in DOMAIN ts}

\* every uid in byUid is listed under byContentFile[byUid[uid].sourceFile]
ByUidListedByFile(idx) ==
    \A u \in MapKeys(idx.topics) :
        /\ FnHas(idx.byFile, MapGet(idx.topics, u).sourceFile)
        /\ u \in UidsOf(idx.byFile[MapGet(idx.topics, u).sourceFile])
\* every uid listed under byContentFile[f] is in byUid with sourceFile f
ByFilePresentInByUid(idx) ==
    \A f \in DOMAIN idx.byFile : \A u \in UidsOf(idx.byFile[f]) :
        /\ MapHas(idx.topics, u)
        /\ MapGet(idx.topics, u).sourceFile = f

\* C3: whenever the index exists, byUid and byContentFile agree in both
\* directions.
C3_IndexConsistent ==
    (~topics.isNull /\ ~topicsByContentFile.isNull) =>
        (ByUidListedByFile(CurrentIndex) /\ ByFilePresentInByUid(CurrentIndex))

\* C4: once a population attempt has failed, every call that shared it has
\* resolved false and the cache is not populated.
C4_FailedPopulationLeavesUnpopulated ==
    popOutcome = "false" => (~isPopulated /\ outcomes \subseteq {"false"})

\* C5: after a failed attempt, a call made with a project open, the index
\* null and no population running starts a fresh population.
C5_RetryStartsPopulation ==
    [][(/\ popOutcome \in {"false", "rejected"}
        /\ docfxProject # NoProject /\ topics.isNull /\ pop.pc = "none"
        /\ Spend("calls") /\ EnsurePopulated)
       => pop'.pc = "cacheExists"]_vars

\* C6: no public operation of the cache rejects.
C6_NoPublicOperationRejects == rejections = {}

\* C7: while the cache is not populated, lookup returns null, list returns
\* nothing and topicCount can be read, none of them throwing.
C7_QueriesSafeWhenUnpopulated ==
    ~isPopulated =>
        /\ \A u \in Uids : getTopicMetadataByUID(u) = Returns(FALSE, <<>>)
        /\ getUIDCompletionListItems = Returns(TRUE, <<>>)
        /\ ~topicCount.throws

\* C8: byUid holds at most one topic per uid, and it is the topic carried by
\* the most recent write that mentioned the uid.
C8_UniqueAndMostRecent ==
    ~topics.isNull =>
        /\ \A i, j \in DOMAIN topics.v : topics.v[i].uid = topics.v[j].uid => i = j
        /\ \A u \in MapKeys(topics.v) :
              /\ ~lastWrite[u].isNull
              /\ MapGet(topics.v, u) = lastWrite[u].v

\* A uid written by an Added/Changed notification (absolute source file) after
\* another content file had listed it.
C8_Witness ==
    /\ ~topics.isNull /\ ~topicsByContentFile.isNull
    /\ \E u \in MapKeys(topics.v) :
          /\ isAbsolute(MapGet(topics.v, u).sourceFile)
          /\ Cardinality({f \in DOMAIN topicsByContentFile.v :
                             u \in UidsOf(topicsByContentFile.v[f])}) >= 2

\* The uids content file f holds: those listed under f and under no other file.
HeldBy(idx, f) ==
    UidsOf(idx.byFile[f]) \ UNION {UidsOf(idx.byFile[g]) : g \in (DOMAIN idx.byFile) \ {f}}

\* The effect the claim gives a Removed notification for content file f.
RemovedExactly(idx, after, f) ==
    /\ after.byFile = FnDelete(idx.byFile, f)
    /\ MapKeys(after.topics) = MapKeys(idx.topics) \ HeldBy(idx, f)
    /\ \A u \in MapKeys(idx.topics) \ HeldBy(idx, f) :
          MapGet(after.topics, u) = MapGet(idx.topics, u)

\* C9: a Removed notification for f removes exactly the uids f held and f's
\* entry, and leaves the uids held by other content files unchanged.
C9_RemoveLeavesOthers ==
    [][\A change \in RemoveChanges :
          (/\ ~topics.isNull /\ ~topicsByContentFile.isNull
           /\ FnHas(topicsByContentFile.v, change.contentFile)
           /\ HandleTopicChange(change))
          => RemovedExactly(CurrentIndex, Index(topics'.v, topicsByContentFile'.v),
                            change.contentFile)]_vars

\* The index as mappings: byUid as the set of its topics.
AsMaps(idx) == [byUid |-> {idx.topics[i] : i \in DOMAIN idx.topics}, byFile |-> idx.byFile]

\* C10: in every reachable index state, processing an Added/Changed
\* notification twice in a row leaves byUid and byContentFile as processing
\* it once does.
C10_UpsertIdempotent ==
    (~topics.isNull /\ ~topicsByContentFile.isNull) =>
        \A change \in UpsertChanges :
            AsMaps(ApplyChange(ApplyChange(CurrentIndex, change), change))
                = AsMaps(ApplyChange(CurrentIndex, change))

\* An Added/Changed notification with topics has been applied to the index.
C10_Witness ==
    /\ ~topics.isNull /\ ~topicsByContentFile.isNull
    /\ \E f \in DOMAIN topicsByContentFile.v :
          /\ topicsByContentFile.v[f] # <<>>
          /\ \A i \in DOMAIN topicsByContentFile.v[f] :
                isAbsolute(topicsByContentFile.v[f][i].sourceFile)

\* The topics of a list, as a set.
TopicSet(ts) == {ts[i] : i \in DOMAIN ts}

\* C11: repopulating an empty index from the snapshot persist() wrote (the
\* index serialised at persist time) yields the persisted topics, with equal
\* field values, sourceFile included.
C11_ReloadYieldsPersisted ==
    [][(/\ cacheFile.state = "valid" /\ topics = Some(<<>>)
        /\ PopReadFile)
       => (/\ MapKeys(topics'.v) = MapKeys(cacheFile.data)
           /\ TopicSet(topics'.v) = TopicSet(cacheFile.data))]_vars

\* C13: when the snapshot file exists but cannot be read or parsed, the
\* population goes on to the full project scan, as for an absent snapshot.
C13_CorruptSnapshotFallsBackToScan ==
    [][(cacheFile.state = "corrupt" /\ PopReadFile) => pop'.pc = "scan"]_vars

\* C16: openProject(P) with a different project open first puts the index in
\* the not-populated state, and when it returns the handle is P and the
\* previous project's snapshot file is gone.
C16_OpenDifferentProject ==
    [][/\ \A p \in Projects :
            (/\ docfxProject # NoProject /\ docfxProject # p
             /\ Spend("opens") /\ OpenProject(p))
            => (topics'.isNull /\ topicsByContentFile'.isNull)
       /\ (docfxProject # NoProject /\ OpenLoad)
            => (docfxProject' = openTask.file /\ cacheFile'.state = "absent")]_vars

\* C17: when a population started with project B open succeeds (B still
\* open), every topic in the index belongs to B.
C17_TopicsBelongToOpenProject ==
    [][(/\ pop.pc # "none" /\ pop.projectDir = docfxProject
        /\ pop'.pc = "none" /\ popOutcome' = "true" /\ ~topics'.isNull)
       => \A i \in DOMAIN topics'.v : topics'.v[i].title \in TitlesOf(docfxProject)]_vars

\* C18: flush() leaves the index not populated and the project handle as it
\* was; closeProject() discards the project handle and the index.
C18_FlushAndCloseDiscard ==
    [][/\ \A clearWorkspaceState \in BOOLEAN :
            (Spend("flushes") /\ Flush(clearWorkspaceState))
            => (topics'.isNull /\ topicsByContentFile'.isNull /\ docfxProject' = docfxProject)
       /\ (Spend("closes") /\ CloseProject)
            => (docfxProject' = NoProject /\ topics'.isNull /\ topicsByContentFile'.isNull)]_vars

\* The topics of the queried index that match the filter of the query.
QueryMatches ==
    {i \in DOMAIN query.topics :
        query.topicType = NoTopicType \/ query.topics[i].detailedType = query.topicType}

C15_MalformedFileDoesNotAbortScan ==
    scan.result # "none" =>
        /\ scan.result = "resolved"
        /\ \A i \in DOMAIN scan.files :
              LET fromFile == {t \in TopicSet(scan.topics) : t.sourceFile = scan.files[i].path}
              IN  IF scan.files[i].form = "malformed"
                  THEN fromFile = {}
                  ELSE {t.uid : t \in fromFile} = {t.uid : t \in TopicSet(getTopics(scan.files[i]).v)}

\* C20: for any single content file, the notifications are emitted to the
\* subscriber in the order in which the watcher raised that file's events.
C20_PerFileOrder ==
    \A a, b \in DOMAIN watch.emitted :
        (/\ a < b
         /\ watch.events[watch.emitted[a]].file = watch.events[watch.emitted[b]].file)
        => watch.emitted[a] < watch.emitted[b]

\* C14: when the topic extraction for one notification fails, the index is
\* left as it was and the subscription continues, so that every later
\* notification whose extraction completes is still delivered to the cache.
C14_FailureKeepsSubscription ==
    [][\A i \in watch.pending :
          /\ (watch.subscription = "active" /\ ExtractionFails(i))
                => (/\ topics' = topics
                    /\ topicsByContentFile' = topicsByContentFile
                    /\ watch'.subscription = "active")
          /\ (/\ watch.subscription # "unsubscribed"
              /\ i \notin watch'.pending
              /\ ~ExtractionFails(i))
                => watch'.emitted = Append(watch.emitted, i)]_vars

\* C19: once closeProject() has returned and no project is open, no change
\* notification of the closed project's watcher is delivered to the cache.
C19_NoDeliveryAfterClose ==
    [][(docfxProject = NoProject /\ docfxProject' = NoProject)
          => watch'.emitted = watch.emitted]_vars

\* C30: populatingPromise is non-null only while a population is running;
\* once populate() has settled in any way it is null again.
C30_GuardReleasedWhenSettled ==
    populatingPromise # "null" => (pop.pc # "none" /\ popOutcome = "running")

\* C22: every topic stored in the index has a sourceFile relative to the
\* project directory, whether it came from population or from a notification.
C22_SourceFilesRelative ==
    (~topics.isNull /\ ~topicsByContentFile.isNull) =>
        /\ \A i \in DOMAIN topics.v : ~isAbsolute(topics.v[i].sourceFile)
        /\ \A f \in DOMAIN topicsByContentFile.v :
              \A i \in DOMAIN topicsByContentFile.v[f] :
                  ~isAbsolute(topicsByContentFile.v[f][i].sourceFile)

\* C21: every emitted notification carries a contentFile relative to the
\* project directory; its topics field is present, holding topics extracted
\* from that file, for Added / Changed and absent for Removed.
C21_NotificationShape ==
    \A k \in DOMAIN watch.notifications :
        LET n == watch.notifications[k]
            event == watch.events[watch.emitted[k]]
        IN  /\ n.changeType = event.changeType
            /\ ~isAbsolute(n.contentFile)
            /\ n.contentFile = RelPath(".", event.file)
            /\ ("topics" \in DOMAIN n) <=> (n.changeType \in {Added, Changed})
            /\ "topics" \in DOMAIN n =>
                  \A j \in DOMAIN n.topics :
                      n.topics[j] \in ExtractedTopics(WatchedProject, event.file)
C21_Witness ==
    \E a, b \in DOMAIN watch.notifications :
        /\ watch.notifications[a].changeType = Removed
        /\ watch.notifications[b].changeType \in {Added, Changed}
        /\ "topics" \in DOMAIN watch.notifications[b]
        /\ watch.notifications[b].topics # <<>>

\* The detailed type the fixed table gives a topic of the given coarse type
\* and member type.
FixedTable(type, memberType) ==
    CASE type = "Conceptual" -> "Conceptual"
      [] type = "Reference.Managed" /\ memberType = "Namespace" -> "Namespace"
      [] type = "Reference.Managed"
            /\ memberType \in {"Class", "Struct", "Interface", "Delegate"} -> "Type"
      [] type = "Reference.Managed" /\ memberType = "Property" -> "Property"
      [] type = "Reference.Managed" /\ memberType \in {"Method", "Constructor"} -> "Method"
      [] type = "Reference.PowerShell" /\ memberType = "Cmdlet" -> "PowerShellCmdlet"
      [] OTHER -> "Other"

\* The enum member of each name.
TopicTypeNamed(name) ==
    CASE name = "Conceptual" -> Conceptual
      [] name = "Namespace" -> Namespace
      [] name = "Type" -> Type
      [] name = "Property" -> Property
      [] name = "Method" -> Method
      [] name = "PowerShellCmdlet" -> PowerShellCmdlet
      [] name = "Other" -> Other
TopicTypeNames ==
    {"Conceptual", "Namespace", "Type", "Property", "Method", "PowerShellCmdlet", "Other"}

\* C23: every topic produced by extraction, by the scan and by the
\* single-file path alike, has the detailedType the fixed table gives it.
C23_DetailedTypeByTable ==
    scan.result = "resolved" =>
        \A i \in DOMAIN scan.topics :
            scan.topics[i].detailedType
                = TopicTypeNamed(FixedTable(scan.topics[i].type, scan.topics[i].memberType))

\* C24: the seven detailed types are pairwise distinguishable: the list of the
\* scanned topics filtered to one of them holds only topics the table puts in
\* that type (none of type Other under PowerShellCmdlet, and vice versa).
C24_TypesDistinguishable ==
    (scan.by = "getAllTopics" /\ scan.result = "resolved") =>
        \A name \in TopicTypeNames :
            LET listed == ListTopics(scan.topics, TopicTypeNamed(name))
            IN  \A i \in DOMAIN listed :
                    FixedTable(listed[i].type, listed[i].memberType) = name

\* C25: a markdown file without front matter or without uid yields no topic;
\* any other yields one topic of coarse and detailed type Conceptual, its name
\* defaulting to uid, its title to name, its sourceFile the file's path.
C25_MarkdownExtraction ==
    (/\ scan.result # "none"
     /\ Len(scan.files) = 1
     /\ endsWith(scan.files[1].path, ".md")
     /\ scan.files[1].form # "malformed") =>
        LET file == scan.files[1]
        IN  /\ scan.result = "resolved"
            /\ IF file.form = "none" \/ file.uid = ""
               THEN scan.topics = <<>>
               ELSE /\ Len(scan.topics) = 1
                    /\ scan.topics[1].uid = file.uid
                    /\ scan.topics[1].type = "Conceptual"
                    /\ scan.topics[1].detailedType = Conceptual
                    /\ scan.topics[1].name = (IF file.name # "" THEN file.name ELSE file.uid)
                    /\ scan.topics[1].title
                          = (IF file.title # "" THEN file.title ELSE scan.topics[1].name)
                    /\ scan.topics[1].sourceFile = file.path

\* The files an enumeration returned, and the directory of a content entry.
Enumerated == {glob.files[i] : i \in DOMAIN glob.files}
BaseOf(contentEntry) == IF contentEntry.src = "" THEN <<>> ELSE <<contentEntry.src>>
IsMarkdown(path) == Extension(path[Len(path)]) = "md"

\* C26: with the single include pattern **.md, the matcher and the
\* enumeration both select the markdown files directly in the base directory
\* and at any depth below it.
C26_StarStarSelectsAnyDepth ==
    (/\ Len(glob.project) = 1
     /\ ~glob.project[1].files.isNull
     /\ Len(glob.project[1].files.v) = 1
     /\ Len(glob.project[1].files.v[1]) = 1
     /\ glob.project[1].files.v[1][1] = StarStar("md")
     /\ Len(glob.project[1].exclude) = 0) =>
            /\ glob.result = "files" =>
                  \A i \in DOMAIN TreeFiles :
                      (IsUnder(BaseOf(glob.project[1]), TreeFiles[i]) /\ IsMarkdown(TreeFiles[i]))
                          => TreeFiles[i] \in Enumerated
            /\ (/\ glob.result = "included"
                /\ IsUnder(BaseOf(glob.project[1]), glob.filePath)
                /\ IsMarkdown(glob.filePath))
                  => glob.included

\* A path matches a pattern as the glob matcher reads the pattern.
Matches(pattern, path) ==
    \E i \in DOMAIN createMatcher(pattern) : match(createMatcher(pattern)[i], path)
\* The files the content entries select: under the base directory of some
\* entry, matching one of its include patterns that does not end in .json and
\* none of its exclude patterns.
SelectedBy(contentEntry, path) ==
    /\ ~contentEntry.files.isNull
    /\ IsUnder(BaseOf(contentEntry), path)
    /\ LET relativePath == RelativeTo(BaseOf(contentEntry), path)
       IN  /\ \E i \in DOMAIN contentEntry.files.v :
                 /\ ~endsWithJson(contentEntry.files.v[i])
                 /\ Matches(contentEntry.files.v[i], relativePath)
           /\ \A i \in DOMAIN contentEntry.exclude :
                 ~Matches(contentEntry.exclude[i], relativePath)

\* C27: the enumeration returns a file if and only if some content entry
\* selects it.
C27_EnumerationRespectsGlobs ==
    glob.result = "files" =>
        \A i \in DOMAIN TreeFiles :
            TreeFiles[i] \in Enumerated
                <=> \E g \in DOMAIN glob.project : SelectedBy(glob.project[g], TreeFiles[i])

\* The errors a search reported or threw, and the case of no project: no
\* project file to be found, or no project open.
SearchErrors ==
    {search.progress[i] : i \in {j \in DOMAIN search.progress : search.progress[j].kind = "error"}}
        \cup {search.thrown[i] : i \in DOMAIN search.thrown}
NoProjectFound ==
    \/ /\ search.by \in {"getDocFXProjectFile", "findDocFXProjectFile"}
       /\ search.cached # "exists" /\ ~search.findFails /\ ~search.inWorkspace
    \/ search.by = "ensureOpenProject" /\ ~search.open

\* C28: when no project file can be found or no project is open, the
\* operation yields null and reports one warning (isWarning true), no error;
\* when the caller suppresses the report, neither.
C28_MissingProjectIsWarning ==
    NoProjectFound =>
        /\ search.result = "null"
        /\ \A error \in SearchErrors : error.isWarning
        /\ IF search.by # "ensureOpenProject" /\ search.ignoreMissingProjectFile
           THEN SearchErrors = {}
           ELSE Cardinality(SearchErrors) = 1

\* C29: when the refresh command completes with the population it awaited
\* successful, the cache is populated and its index was loaded from a fresh
\* scan made since the command, not from a snapshot file.
C29_RefreshRescans ==
    [][(refresh.pc # "done" /\ refresh'.pc = "done" /\ popOutcome' = "true")
          => (/\ docfxProject' # NoProject
              /\ ~topics'.isNull
              /\ refresh'.source = "scan")]_vars

\* The handleTopicChange invocations whose persist() has not completed.
ChangesInProgress == {i \in ChangeTasks : persistTasks[i].pc # "idle"}

\* C31: change notifications are handled one at a time: handleTopicChange
\* for a notification does not start while the handleTopicChange of an
\* earlier notification, its awaited persist() included, has not completed.
C31_OneChangeAtATime ==
    [][budget'.changes < budget.changes => ChangesInProgress = {}]_vars

\* No population and no persist() is in progress.
Quiescent == pop.pc = "none" /\ \A i \in DOMAIN persistTasks : persistTasks[i].pc = "idle"

\* C32: whenever the cache is populated by a successful population and no
\* population and no persist() is in progress, the snapshot file holds
\* exactly the topics of byUid.
C32_SnapshotEqualsIndex ==
    (Quiescent /\ isPopulated /\ popOutcome = "true") =>
        (cacheFile.state = "valid" /\ TopicSet(cacheFile.data) = TopicSet(topics.v))

\* Two notifications about different content files that carry no uid in common.
Independent(c1, c2) ==
    /\ c1.contentFile # c2.contentFile
    /\ UidsOf(ChangeTopics(c1)) \cap UidsOf(ChangeTopics(c2)) = {}

\* C33: from every reachable index state, processing two notifications about
\* different content files with no carried uid in common leaves byUid and
\* byContentFile the same whichever of the two is processed first.
C33_DifferentFilesCommute ==
    (~topics.isNull /\ ~topicsByContentFile.isNull) =>
        \A c1, c2 \in Changes :
            Independent(c1, c2) =>
                AsMaps(ApplyChange(ApplyChange(CurrentIndex, c1), c2))
                    = AsMaps(ApplyChange(ApplyChange(CurrentIndex, c2), c1))

\* The glob a pattern stands for: a segment "**.ext" selects the names with
\* that extension in the directory and at any depth below it.
RECURSIVE Expanded(_)
Expanded(pattern) ==
    IF pattern = <<>> THEN <<>>
    ELSE (IF Head(pattern).kind = "**."
          THEN <<GlobStar, Star(Head(pattern).text)>>
          ELSE <<Head(pattern)>>) \o Expanded(Tail(pattern))
GlobMatches(pattern, path) == match(Expanded(pattern), path)

\* The include and exclude patterns the project's matcher is built from.
MatcherEntries(content) ==
    {i \in DOMAIN content :
        ~content[i].files.isNull /\ NotJson(content[i].files.v) # <<>>}
MatcherIncludes(content) ==
    UNION {TopicSet(NotJson(content[i].files.v)) : i \in MatcherEntries(content)}
MatcherExcludes(content) ==
    UNION {TopicSet(NotJson(content[i].exclude)) : i \in MatcherEntries(content)}

\* C34: shouldIncludeFile returns true exactly for the paths that, relative
\* to the matcher's base directory, match at least one include pattern and
\* no exclude pattern.
C34_IncludedIffMatched ==
    glob.result = "included" =>
        (glob.included <=>
            /\ \E pattern \in MatcherIncludes(glob.project) :
                   GlobMatches(pattern, glob.filePath)
            /\ \A pattern \in MatcherExcludes(glob.project) :
                   ~GlobMatches(pattern, glob.filePath))

\* A file that matches an include and an exclude pattern was asked about.
C34_Witness ==
    /\ glob.result = "included"
    /\ ~glob.included
    /\ \E pattern \in MatcherIncludes(glob.project) : GlobMatches(pattern, glob.filePath)
    /\ \E pattern \in MatcherExcludes(glob.project) : GlobMatches(pattern, glob.filePath)

\* The paths that hold no topics: tables of contents, JSON files and files
\* that are neither markdown nor YAML.
HoldsNoTopics(path) ==
    \/ endsWith(path, ".json")
    \/ endsWith(path, "toc.yml")
    \/ ~(endsWith(path, ".md") \/ endsWith(path, ".yml"))

\* C35: for a table of contents, a JSON file and a file that is neither
\* markdown nor YAML, getTopics returns the empty list, and a scan whose
\* enumeration holds such a file completes.
C35_NoTopicsIsEmptyList ==
    (scan.result # "none" /\ Len(scan.files) = 1 /\ HoldsNoTopics(scan.files[1].path)) =>
        (scan.result = "resolved" /\ scan.topics = <<>>)

\* The closing fences of a file within the bound: the fence lines among the
\* MaxLinesOfFrontMatter lines that follow the first.
ClosingFences(file) ==
    {i \in 2 .. Len(file) : i - 1 <= MaxLinesOfFrontMatter /\ IsFrontMatterFence(<<file[i]>>)}
FirstClosingFence(file) ==
    CHOOSE i \in ClosingFences(file) : \A j \in ClosingFences(file) : i <= j
HasFrontMatter(file) ==
    /\ file # <<>>
    /\ IsFrontMatterFence(<<file[1]>>)
    /\ ClosingFences(file) # {}

\* C36: ReadFromFile returns the front matter between the first line, a
\* fence, and the closing fence when one occurs within MaxLinesOfFrontMatter
\* following lines, and null otherwise; it reads at most
\* 1 + MaxLinesOfFrontMatter lines.
C36_FrontMatterWithinBound ==
    frontMatter.result # "none" =>
        /\ frontMatter.linesRead <= 1 + MaxLinesOfFrontMatter
        /\ IF HasFrontMatter(frontMatter.file)
           THEN LET expected == LoadFirstDocument(
                                    SubSeq(frontMatter.file, 2,
                                           FirstClosingFence(frontMatter.file) - 1), 0)
                IN  /\ frontMatter.result = expected.result
                    /\ frontMatter.document = expected.document
           ELSE frontMatter.result = "null"

\* A step in which an ensurePopulated() call resolves true: the call finds
\* a project and an index (line 217), or the population it awaits returns true.
ResolvesTrue ==
    \/ budget'.calls < budget.calls /\ projectFile # NoProject /\ ~topics.isNull
    \/ joiners > 0 /\ pop.pc # "none" /\ pop'.pc = "none" /\ popOutcome' = "true"

\* C37: whenever ensurePopulated() resolves true, the cache is populated at
\* that moment and the load of the index has finished.
C37_TrueMeansPopulated ==
    [][ResolvesTrue =>
          (/\ docfxProject' # NoProject
           /\ ~topics'.isNull /\ ~topicsByContentFile'.isNull
           /\ pop'.pc = "none")]_vars

\* C38: from every reachable index state, after an Added/Changed
\* notification for content file f that carries uid u, followed by a
\* notification for another file that does not carry u (Changed without u,
\* or Removed), the lookup of u finds a topic.
C38_MovedUidStaysFound ==
    (~topics.isNull /\ ~topicsByContentFile.isNull) =>
        \A c1 \in UpsertChanges, c2 \in Changes :
            c1.contentFile # c2.contentFile =>
                \A u \in UidsOf(c1.topics) \ UidsOf(ChangeTopics(c2)) :
                    MapHas(ApplyChange(ApplyChange(CurrentIndex, c1), c2).topics, u)

\* The step in which the running population stores what it read from the
\* snapshot or the scan.
PopulationStores == pop.pc \in {"readFile", "scan"} /\ pop'.pc = "persist"

\* C39: what the change notifications processed while a population is in
\* flight have put into the index is still there when the population has
\* stored the topics it read: byUid and byContentFile[f] hold the
\* notification's topics, and byContentFile[f] lists each uid once.
C39_ChangeSurvivesPopulation ==
    [][(PopulationStores /\ ~topics.isNull /\ ~topicsByContentFile.isNull) =>
          /\ \A u \in MapKeys(topics.v) : MapGet(topics'.v, u) = MapGet(topics.v, u)
          /\ \A f \in DOMAIN topicsByContentFile.v :
                /\ topicsByContentFile'.v[f] = topicsByContentFile.v[f]
                /\ \A i, j \in DOMAIN topicsByContentFile'.v[f] :
                      topicsByContentFile'.v[f][i].uid = topicsByContentFile'.v[f][j].uid
                          => i = j]_vars

\* The flush(true) of the refresh command has completed and no population
\* has loaded the index since the command was invoked.
FlushedAndNotReloaded ==
    refresh.pc \in {"search", "open", "opened"} /\ refresh.source = "none"

\* C40: once flush(true) has completed and every persist() has completed,
\* no snapshot file exists until the next population writes one.
C40_NoSnapshotAfterFlush ==
    (FlushedAndNotReloaded /\ Quiescent) => cacheFile.state = "absent"
====
